---- MODULE Spec2Model ----
(***************************************************************************)
(* A model of the PYSE ZX Spectrum emulator core (src/pyse.py, with the    *)
(* earlier revision src/Challenge07/pyse.py): the ULA beam state machine,  *)
(* the CPU bus transactions, the memory, the IO bus, the keyboard matrix   *)
(* and the System.run loop.                                                *)
(***************************************************************************)
EXTENDS Integers, Sequences, FiniteSets, TLC

-----------------------------------------------------------------------------
(* Program constants.                                                      *)

T_STATES_PER_LINE == 224
T_STATES_PER_FRAME == 69888
\* System.fps_update_interval, in milliseconds.
fps_update_interval == 500
TOTAL_WIDTH == 352
\* COLUMNS one short.
ColumnsShort == TOTAL_WIDTH \div 8 - 1
COLUMNS == TOTAL_WIDTH \div 8
FIELD_LINES == 312
TOP_BLANKING == 16
BOTTOM_BLANKING == 4
VISIBLE_LINES == FIELD_LINES - TOP_BLANKING - BOTTOM_BLANKING
\* CRT_LINES one short.
CrtLinesShort == VISIBLE_LINES * 2 - 1
CRT_LINES == VISIBLE_LINES * 2
SCREEN_START_LINE == 64
SCREEN_START_COLUMN == 6
SCREEN_WIDTH_BYTES == 32
SCREEN_HEIGHT == 192
BORDER_T_STATES == SCREEN_START_COLUMN * 4
FLASH_RATE == 16
INTERRUPT_DURATION == 32
CHUNK_SIZE == 13 * 8 * 224
\* ROM_END one byte early.
RomEndEarly == 2^14 - 1
ROM_END == 16384
DISPLAY_BASE == 16384
ATTR_BASE == 22528
MEM_SIZE == 65536
SNA_RAM_SIZE == 49152
SNA_PC == 114

-----------------------------------------------------------------------------
(* Bounds of the model.                                                    *)

\* Ticks explored by the System.run specification (one field and a bit).
MaxTStates == 70200
\* Ticks explored by the field specification (two fields and a bit).
MaxFieldTStates == 140000
\* Fields explored by the flash specification.
MaxFlashFields == 33
\* Ticks explored by the bus specification.
MaxBusTStates == 2
\* Ticks explored by the IO write specification.
MaxIoTStates == 2
\* Devices registered on the bus in the device bus specification.
MaxDevices == 3
\* Ticks explored by the pin specification.
MaxPinTStates == 2
\* Ticks explored T-state by T-state by the specification of the pixel
\* samples, after its first chunk (one line and a bit).
MaxSampleTStates == 270
\* Choices of register values in the load_sna specification.
MaxSnaInputs == 20
\* Successful loads in the load_from_file specification.
MaxLoads == 2
\* File arguments in the specification of main.
MaxArgs == 3
\* Ticks explored by the specification of the memory accesses.
MaxAccessTStates == 60
\* Chunks begun without a quit in the specification of the end of the loop.
MaxQuitChunks == 2
\* Iterations of the inner loop taken one by one in that specification.
MaxQuitTicks == 3
\* Chunks begun without a quit in the specification of two runs.
MaxTwinChunks == 2
\* Fields run by the specification of the field and flash state, and the
\* T-states at the end of a field that it takes one by one.
MaxFrameFields == 16
MaxFrameTicks == 4
\* Fields scanned in SpecScan.
MaxScanFields == 2
\* T-states the two emulators run side by side, and the T-states at the
\* end of a chunk in which the CPU may do more than idle.
MaxPairTStates == 23744
MaxPairBusy == 2
\* Key events polled in the key-event specification.
MaxKeyEvents == 3
\* Keys held down at once in the keyboard specification.
MaxPressed == 2

-----------------------------------------------------------------------------
(* Python integer operators on non-negative operands.                      *)

\* a & b, bit by bit.
RECURSIVE BitAndBits(_, _)
BitAndBits(a, b) ==
    IF a = 0 \/ b = 0 THEN 0
    ELSE (a % 2) * (b % 2) + 2 * BitAndBits(a \div 2, b \div 2)

\* a & b of two bytes, tabulated.
ByteAnd == [a \in 0..255 |-> [b \in 0..255 |-> BitAndBits(a, b)]]

\* a & b, byte by byte.
RECURSIVE BitAnd(_, _)
BitAnd(a, b) ==
    IF a = 0 \/ b = 0 THEN 0
    ELSE ByteAnd[a % 256][b % 256] + 256 * BitAnd(a \div 256, b \div 256)

\* a | b: every bit of a and of b, the common ones counted once.
BitOr(a, b) == a + b - BitAnd(a, b)

\* a << n
Shl(a, n) == a * 2^n

\* a >> n
Shr(a, n) == a \div 2^n

\* x & ~m for x, m >= 0: Python's ~m is -m-1, an infinite string of ones
\* above the bits of m, so the AND clears exactly the bits of m in x.
BitAndNot(x, m) == x - BitAnd(x, m)

\* (~a) & m for a, m >= 0: the bits of m that are 0 in a.
BitNotAnd(a, m) == m - BitAnd(a, m)

-----------------------------------------------------------------------------
(* Host scancodes (the SDL2 values the source names as SDL_SCANCODE_x).    *)

SDL_SCANCODE ==
    [A |-> 4, B |-> 5, C |-> 6, D |-> 7, E |-> 8, F |-> 9, G |-> 10, H |-> 11,
     I |-> 12, J |-> 13, K |-> 14, L |-> 15, M |-> 16, N |-> 17, O |-> 18,
     P |-> 19, Q |-> 20, R |-> 21, S |-> 22, T |-> 23, U |-> 24, V |-> 25,
     W |-> 26, X |-> 27, Y |-> 28, Z |-> 29,
     K1 |-> 30, K2 |-> 31, K3 |-> 32, K4 |-> 33, K5 |-> 34, K6 |-> 35,
     K7 |-> 36, K8 |-> 37, K9 |-> 38, K0 |-> 39,
     RETURN |-> 40, ESCAPE |-> 41, SPACE |-> 44, F1 |-> 58,
     LCTRL |-> 224, LSHIFT |-> 225, RSHIFT |-> 229]

\* Keyboard.key_map: scancode -> <<row, bit_mask>>.
key_map ==
    LET SC == SDL_SCANCODE IN
    (SC.LSHIFT :> <<0, 1>>) @@ (SC.RSHIFT :> <<0, 1>>) @@ (SC.Z :> <<0, 2>>) @@
    (SC.X :> <<0, 4>>) @@ (SC.C :> <<0, 8>>) @@ (SC.V :> <<0, 16>>) @@
    (SC.A :> <<1, 1>>) @@ (SC.S :> <<1, 2>>) @@ (SC.D :> <<1, 4>>) @@
    (SC.F :> <<1, 8>>) @@ (SC.G :> <<1, 16>>) @@
    (SC.Q :> <<2, 1>>) @@ (SC.W :> <<2, 2>>) @@ (SC.E :> <<2, 4>>) @@
    (SC.R :> <<2, 8>>) @@ (SC.T :> <<2, 16>>) @@
    (SC.K1 :> <<3, 1>>) @@ (SC.K2 :> <<3, 2>>) @@ (SC.K3 :> <<3, 4>>) @@
    (SC.K4 :> <<3, 8>>) @@ (SC.K5 :> <<3, 16>>) @@
    (SC.K0 :> <<4, 1>>) @@ (SC.K9 :> <<4, 2>>) @@ (SC.K8 :> <<4, 4>>) @@
    (SC.K7 :> <<4, 8>>) @@ (SC.K6 :> <<4, 16>>) @@
    (SC.P :> <<5, 1>>) @@ (SC.O :> <<5, 2>>) @@ (SC.I :> <<5, 4>>) @@
    (SC.U :> <<5, 8>>) @@ (SC.Y :> <<5, 16>>) @@
    (SC.RETURN :> <<6, 1>>) @@ (SC.L :> <<6, 2>>) @@ (SC.K :> <<6, 4>>) @@
    (SC.J :> <<6, 8>>) @@ (SC.H :> <<6, 16>>) @@
    (SC.SPACE :> <<7, 1>>) @@ (SC.LCTRL :> <<7, 2>>) @@ (SC.M :> <<7, 4>>) @@
    (SC.N :> <<7, 8>>) @@ (SC.B :> <<7, 16>>)

-----------------------------------------------------------------------------
(* State.                                                                  *)

VARIABLES
    pc,               \* position in main / System.run
    quit,             \* System.run: the local quit flag
    current_t_state,  \* System.current_t_state
    target_t_state,   \* System.run: end of the chunk being executed
    next_refresh_t_state,  \* System.run: the local next_refresh_t_state
    line,             \* ULA.line
    line_cycle,       \* ULA.line_cycle
    current_column,   \* ULA.current_column
    flash_flipper,    \* ULA.flash_flipper
    border_color,     \* ULA.border_color
    odd_field,        \* CRT.odd_field
    flash_inverted,   \* CRT.flash_inverted
    rows,             \* Keyboard.rows
    ram,              \* Memory.ram
    pins,             \* CPU.pins
    z80,              \* the registers of the Z80 core
    fields,           \* history: number of CRT.toggle_field calls
    flash_toggles,    \* history: number of CRT.toggle_flash calls
    refreshes,        \* history: number of CRT.refresh calls made by run
    group,            \* history: the last group of 8 pixels drawn by
                      \* screen_update_full_jit (its cell, the bytes it read)
    landed,           \* history: the last CPU write made in the T-state in
                      \* which the written byte (or the border) was sampled,
                      \* and whether a later sample has read it
    down,             \* history: matrix keys <<row, mask>> whose last key
                      \* event was a press (LSHIFT and RSHIFT are one key)
    arg,              \* address calculation: the (line, col) argument
    ret               \* address calculation: the addresses returned

vars ==
    <<pc, quit, current_t_state, target_t_state, line, line_cycle,
      current_column, flash_flipper, border_color, odd_field, flash_inverted,
      rows, ram, pins, z80, fields, flash_toggles, group, landed, down, arg,
      ret, next_refresh_t_state, refreshes>>

ulaVars == <<line, line_cycle, current_column, flash_flipper, border_color>>
crtVars == <<odd_field, flash_inverted>>
histVars == <<fields, flash_toggles, group, landed>>
calcVars == <<arg, ret>>
runVars == <<next_refresh_t_state, refreshes>>

-----------------------------------------------------------------------------------------------------------------------------------------------------
(* Files.  A file is its size, its first bytes (head) and a seed that      *)
(* fixes every later byte, so that a 49179-byte snapshot is a small value. *)

FileByte(f, off) ==
    IF off < Len(f.head) THEN f.head[off + 1] ELSE (f.seed + off * 7) % 256

-----------------------------------------------------------------------------
(* Memory: 64K bytes.  ram is kept as what was stored over the contents    *)
(* Memory.__init__ builds: the regions copied from files (layers, oldest   *)
(* first) and the single bytes written since (over).                       *)

\* Memory.__init__: zeros, a stripe pattern in the pixel area, alternating
\* attributes.
InitialByte(addr) ==
    IF addr >= DISPLAY_BASE /\ addr < DISPLAY_BASE + 192 * 32
    THEN LET y == (addr - DISPLAY_BASE) \div 32
             x == (addr - DISPLAY_BASE) % 32
         IN IF BitAnd(x + (y \div 8), 7) # 0 THEN 170 ELSE 85
    ELSE IF addr >= ATTR_BASE /\ addr < ATTR_BASE + 24 * 32
    THEN LET y == (addr - ATTR_BASE) \div 32
             x == (addr - ATTR_BASE) % 32
         IN IF BitAnd(x + y, 1) # 0 THEN 69 ELSE 22
    ELSE 0

\* The byte of the newest layer, among the first n, that covers addr.
RECURSIVE LayerByte(_, _, _)
LayerByte(layers, n, addr) ==
    IF n = 0 THEN InitialByte(addr)
    ELSE LET l == layers[n]
         IN IF addr >= l.addr /\ addr < l.addr + l.size
            THEN FileByte(l.file, l.offset + (addr - l.addr))
            ELSE LayerByte(layers, n - 1, addr)

\* Memory.read
MemRead(mem, address) ==
    IF address \in DOMAIN mem.over
    THEN mem.over[address]
    ELSE LayerByte(mem.layers, Len(mem.layers), address)

\* Memory.write: the test for a ROM address guards only a pass statement;
\* the store self.ram[address] = value follows for every address.
MemWrite(mem, address, value) ==
    [mem EXCEPT !.over =
        [a \in DOMAIN mem.over \cup {address} |->
            IF a = address THEN value ELSE mem.over[a]]]

\* MemLoad with the bytes taken one byte further on in the file.
MemLoadShifted(mem, addr, size, f, offset) ==
    [layers |-> Append(mem.layers,
                    [addr |-> addr, size |-> size, file |-> f,
                     offset |-> offset + 1]),
     over |-> [a \in {x \in DOMAIN mem.over : x < addr \/ x >= addr + size} |->
                    mem.over[a]]]

\* MemLoad with one byte more than size copied.
MemLoadLong(mem, addr, size, f, offset) ==
    [layers |-> Append(mem.layers,
                    [addr |-> addr, size |-> size + 1, file |-> f,
                     offset |-> offset]),
     over |-> [a \in {x \in DOMAIN mem.over : x < addr \/ x >= addr + size} |->
                    mem.over[a]]]

\* self.ram[addr:addr+size] = the size bytes of file f from offset on.
MemLoad(mem, addr, size, f, offset) ==
    [layers |-> Append(mem.layers,
                    [addr |-> addr, size |-> size, file |-> f, offset |-> offset]),
     over |-> [a \in {x \in DOMAIN mem.over : x < addr \/ x >= addr + size} |->
                    mem.over[a]]]

-----
(* Keyboard.                                                               *)

\* A variant of Keyboard.release that flips the bit of the key.
KeyReleaseFlip(rws, scancode) ==
    IF scancode \in DOMAIN key_map
    THEN LET row == key_map[scancode][1]
             bit_mask == key_map[scancode][2]
         IN [rws EXCEPT ![row] = IF BitAnd(rws[row], bit_mask) = 0
                                 THEN BitOr(rws[row], bit_mask)
                                 ELSE BitAndNot(rws[row], bit_mask)]
    ELSE rws

\* Keyboard.press
KeyPress(rws, scancode) ==
    IF scancode \in DOMAIN key_map
    THEN LET row == key_map[scancode][1]
             bit_mask == key_map[scancode][2]
         IN [rws EXCEPT ![row] = BitAndNot(rws[row], bit_mask)]
    ELSE rws

\* Keyboard.release
KeyRelease(rws, scancode) ==
    IF scancode \in DOMAIN key_map
    THEN LET row == key_map[scancode][1]
             bit_mask == key_map[scancode][2]
         IN [rws EXCEPT ![row] = BitOr(rws[row], bit_mask)]
    ELSE rws

\* Keyboard.read: the loop over the rows 0..7, from row `row` on.
RECURSIVE KeyboardReadLoop(_, _, _, _)
KeyboardReadLoop(rws, high_byte, row, result) ==
    IF row = 8 THEN result
    ELSE KeyboardReadLoop(rws, high_byte, row + 1,
            IF BitAnd(high_byte, Shl(1, row)) = 0
            THEN BitAnd(result, rws[row])
            ELSE result)

\* Keyboard.read answering with the first selected row only.
KeyboardReadFirstRow(rws, addr) ==
    LET high_byte == BitAnd(Shr(addr, 8), 255)
        sel == {r \in 0..7 : BitAnd(high_byte, Shl(1, r)) = 0}
    IN IF sel = {} THEN 255
       ELSE rws[CHOOSE r \in sel : \A q \in sel : r <= q]

\* Keyboard.read
KeyboardRead(rws, addr) ==
    LET high_byte == BitAnd(Shr(addr, 8), 255)
    IN KeyboardReadLoop(rws, high_byte, 0, 255)

-----------------------------------------------------------------------------
(* ULA as an IO device, and the IO bus.                                    *)

\* ULA.read without the three high bits forced to 1.
UlaReadLow(rws, addr) ==
    IF BitAnd(addr, 1) = 0
    THEN BitAnd(KeyboardRead(rws, addr), 31)
    ELSE 255

\* ULA.read
UlaRead(rws, addr) ==
    IF BitAnd(addr, 1) = 0
    THEN BitOr(BitAnd(KeyboardRead(rws, addr), 31), 224)
    ELSE 255

\* ULA.set_border_color without the mask.
SetBorderColorRaw(color) == color

\* ULA.set_border_color
SetBorderColor(color) == BitAnd(color, 7)

\* ULA.write
UlaWrite(addr, value) == SetBorderColor(value)

\* System.__init__: io_bus.add_device(0x0001, self.ula)
Devices == << [mask |-> 1, device |-> "ULA"] >>

\* The match test of IODeviceBus.read and IODeviceBus.write.
DeviceMatches(addr, mask) == BitNotAnd(addr, mask) = mask

\* FirstMatch answering with the last device that matches.
RECURSIVE FirstMatchLast(_, _, _)
FirstMatchLast(devs, addr, i) ==
    IF i > Len(devs) THEN 0
    ELSE LET later == FirstMatchLast(devs, addr, i + 1)
         IN IF later # 0 THEN later
            ELSE IF DeviceMatches(addr, devs[i].mask) THEN i
            ELSE 0

\* Index of the first device of devs, from position i on, that matches addr;
\* 0 when there is none.
RECURSIVE FirstMatch(_, _, _)
FirstMatch(devs, addr, i) ==
    IF i > Len(devs) THEN 0
    ELSE IF DeviceMatches(addr, devs[i].mask) THEN i
    ELSE FirstMatch(devs, addr, i + 1)

\* device.read(addr): the ULA of the system (keyboard rows rws), a Keyboard
\* of its own, or a plain IODevice.
DeviceRead(dev, rws, addr) ==
    IF dev.device = "ULA" THEN UlaRead(rws, addr)
    ELSE IF dev.device = "Keyboard" THEN KeyboardRead(dev.rows, addr)
    ELSE 255

\* device.write(addr, value): the border colour of the system's ULA after
\* it.  Keyboard inherits the write of IODevice, which does nothing.
DeviceWrite(dev, border, addr, value) ==
    IF dev.device = "ULA" THEN UlaWrite(addr, value) ELSE border

\* The devices, by position, whose read (or write) one call of
\* IODeviceBus.read (or IODeviceBus.write) invokes, in order.
IOBusCalls(devs, addr) ==
    LET i == FirstMatch(devs, addr, 1)
    IN IF i = 0 THEN <<>> ELSE <<i>>

\* IODeviceBus.read
IOBusRead(devs, rws, addr) ==
    LET i == FirstMatch(devs, addr, 1)
    IN IF i = 0 THEN 255 ELSE DeviceRead(devs[i], rws, addr)

\* IODeviceBus.write calling write on every device that matches.
IOBusWriteAll(devs, border, addr, value) ==
    IF \E i \in 1..Len(devs) :
          DeviceMatches(addr, devs[i].mask) /\ devs[i].device = "ULA"
    THEN UlaWrite(addr, value)
    ELSE border

\* IODeviceBus.write: the border colour after the write.
IOBusWrite(devs, border, addr, value) ==
    LET i == FirstMatch(devs, addr, 1)
    IN IF i = 0 THEN border ELSE DeviceWrite(devs[i], border, addr, value)

-----------------------------------------------------------------------------
(* Screen address arithmetic.                                              *)

\* calculate_display_address with the character row shifted by 3 for 2.
calculate_display_address_shift(ln, col) ==
    LET a0 == DISPLAY_BASE
        a1 == BitOr(a0, Shl(BitAnd(ln, 192), 5))
        a2 == BitOr(a1, Shl(BitAnd(ln, 7), 8))
        a3 == BitOr(a2, Shl(BitAnd(ln, 56), 3))
    IN BitOr(a3, BitAnd(col, 31))

\* Memory.calculate_display_address (Challenge07), and the same arithmetic
\* inline in screen_update_full_jit.
calculate_display_address(ln, col) ==
    LET a0 == DISPLAY_BASE
        a1 == BitOr(a0, Shl(BitAnd(ln, 192), 5))
        a2 == BitOr(a1, Shl(BitAnd(ln, 7), 8))
        a3 == BitOr(a2, Shl(BitAnd(ln, 56), 2))
    IN BitOr(a3, BitAnd(col, 31))

\* calculate_attr_address with the pixel line used for the character row.
calculate_attr_address_line(ln, col) == ATTR_BASE + (ln * 32) + col

\* Memory.calculate_attr_address (Challenge07), and the same arithmetic
\* inline in screen_update_full_jit.
calculate_attr_address(ln, col) == ATTR_BASE + (Shr(ln, 3) * 32) + col

-----------------------------------------------------------------------------
(* CPU: the pins, and the bus transaction of one T-state.                  *)

\* The pins the Z80 core returns from z80_init and z80_prefetch.
NoPins ==
    [mreq |-> FALSE, iorq |-> FALSE, rd |-> FALSE, wr |-> FALSE, m1 |-> FALSE,
     int |-> FALSE, addr |-> 0, data |-> 0]

\* The pin values the core may put out in one T-state.
CpuIdle == NoPins
CpuMemRead(a) == [NoPins EXCEPT !.mreq = TRUE, !.rd = TRUE, !.addr = a]
CpuMemWrite(a, d) == [NoPins EXCEPT !.mreq = TRUE, !.wr = TRUE, !.addr = a, !.data = d]
CpuIoRead(a) == [NoPins EXCEPT !.iorq = TRUE, !.rd = TRUE, !.addr = a]
CpuIoWrite(a, d) == [NoPins EXCEPT !.iorq = TRUE, !.wr = TRUE, !.addr = a, !.data = d]
CpuIntAck == [NoPins EXCEPT !.iorq = TRUE, !.m1 = TRUE]

\* CPU.tick: the core drives the control, address and data pins; INT is an
\* input of the core and keeps the level it was given.
CpuTick(p, out) == [out EXCEPT !.int = p.int]

\* CPU.interrupt
CpuInterrupt(p, status) == [p EXCEPT !.int = status]

\* CPU.transact without the interrupt acknowledge case.
TransactNoAck(p, mem, border, rws) ==
    LET same == [pins |-> p, ram |-> mem, border_color |-> border]
    IN IF p.mreq
       THEN IF p.rd
            THEN [same EXCEPT !.pins.data = BitAnd(MemRead(mem, p.addr), 255)]
            ELSE IF p.wr
            THEN [same EXCEPT !.ram = MemWrite(mem, p.addr, p.data)]
            ELSE same
       ELSE IF p.iorq
       THEN IF p.rd
            THEN [same EXCEPT !.pins.data =
                                 BitAnd(IOBusRead(Devices, rws, p.addr), 255)]
            ELSE IF p.wr
            THEN [same EXCEPT !.border_color =
                                 IOBusWrite(Devices, border, p.addr, p.data)]
            ELSE same
       ELSE same

\* CPU.transact: the pins, the memory and the border colour after it.
Transact(p, mem, border, rws) ==
    LET same == [pins |-> p, ram |-> mem, border_color |-> border]
    IN IF p.mreq
       THEN IF p.rd
            THEN [same EXCEPT !.pins.data = BitAnd(MemRead(mem, p.addr), 255)]
            ELSE IF p.wr
            THEN [same EXCEPT !.ram = MemWrite(mem, p.addr, p.data)]
            ELSE same
       ELSE IF p.iorq
       THEN IF p.m1
            THEN [same EXCEPT !.pins.data = 255]
            ELSE IF p.rd
            THEN [same EXCEPT !.pins.data =
                                 BitAnd(IOBusRead(Devices, rws, p.addr), 255)]
            ELSE IF p.wr
            THEN [same EXCEPT !.border_color =
                                 IOBusWrite(Devices, border, p.addr, p.data)]
            ELSE same
       ELSE same

-----------------------------------------------------------------------------
(* ULA.tick: the beam.                                                     *)

\* UlaInterrupt with the end of the interrupt tested one cycle late.
UlaInterruptLate(p, ln, cycle) ==
    IF ln = 0 /\ cycle = BORDER_T_STATES
    THEN CpuInterrupt(p, TRUE)
    ELSE IF ln = 0 /\ cycle = BORDER_T_STATES + INTERRUPT_DURATION + 1
    THEN CpuInterrupt(p, FALSE)
    ELSE p

\* ULA.tick, "Generate interrupts at the start of the frame": ln is the line
\* before the end-of-line test, cycle the line cycle after its increment.
UlaInterrupt(p, ln, cycle) ==
    IF ln = 0 /\ cycle = BORDER_T_STATES
    THEN CpuInterrupt(p, TRUE)
    ELSE IF ln = 0 /\ cycle = BORDER_T_STATES + INTERRUPT_DURATION
    THEN CpuInterrupt(p, FALSE)
    ELSE p

\* BeamAdvance with the line left as it is at the end of a line.
BeamAdvanceStuckLine(ln, cycle, flipper) ==
    LET cycle1 == cycle + 1
        end_of_line == cycle1 >= T_STATES_PER_LINE
        ln1 == ln
        end_of_frame == end_of_line /\ ln1 >= FIELD_LINES
        flipper1 == IF end_of_frame THEN flipper - 1 ELSE flipper
        flash == end_of_frame /\ flipper1 = 0
    IN [line |-> IF end_of_frame THEN 0 ELSE ln1,
        line_cycle |-> IF end_of_line THEN 0 ELSE cycle1,
        flash_flipper |-> IF flash THEN FLASH_RATE ELSE flipper1,
        toggle_flash |-> flash,
        toggle_field |-> end_of_frame]

\* BeamAdvance with the end of the line tested one cycle early.
BeamAdvanceShortLine(ln, cycle, flipper) ==
    LET cycle1 == cycle + 1
        end_of_line == cycle1 >= T_STATES_PER_LINE - 1
        ln1 == IF end_of_line THEN ln + 1 ELSE ln
        end_of_frame == end_of_line /\ ln1 >= FIELD_LINES
        flipper1 == IF end_of_frame THEN flipper - 1 ELSE flipper
        flash == end_of_frame /\ flipper1 = 0
    IN [line |-> IF end_of_frame THEN 0 ELSE ln1,
        line_cycle |-> IF end_of_line THEN 0 ELSE cycle1,
        flash_flipper |-> IF flash THEN FLASH_RATE ELSE flipper1,
        toggle_flash |-> flash,
        toggle_field |-> end_of_frame]

\* BeamAdvance with the end of the line tested with > for >=.
BeamAdvanceLateWrap(ln, cycle, flipper) ==
    LET cycle1 == cycle + 1
        end_of_line == cycle1 > T_STATES_PER_LINE
        ln1 == IF end_of_line THEN ln + 1 ELSE ln
        end_of_frame == end_of_line /\ ln1 >= FIELD_LINES
        flipper1 == IF end_of_frame THEN flipper - 1 ELSE flipper
        flash == end_of_frame /\ flipper1 = 0
    IN [line |-> IF end_of_frame THEN 0 ELSE ln1,
        line_cycle |-> IF end_of_line THEN 0 ELSE cycle1,
        flash_flipper |-> IF flash THEN FLASH_RATE ELSE flipper1,
        toggle_flash |-> flash,
        toggle_field |-> end_of_frame]

\* BeamAdvance with the flash test made on the countdown before its decrement.
BeamAdvanceFlashBefore(ln, cycle, flipper) ==
    LET cycle1 == cycle + 1
        end_of_line == cycle1 >= T_STATES_PER_LINE
        ln1 == IF end_of_line THEN ln + 1 ELSE ln
        end_of_frame == end_of_line /\ ln1 >= FIELD_LINES
        flipper1 == IF end_of_frame THEN flipper - 1 ELSE flipper
        flash == end_of_frame /\ flipper = 0
    IN [line |-> IF end_of_frame THEN 0 ELSE ln1,
        line_cycle |-> IF end_of_line THEN 0 ELSE cycle1,
        flash_flipper |-> IF flash THEN FLASH_RATE ELSE flipper1,
        toggle_flash |-> flash,
        toggle_field |-> end_of_frame]

\* BeamAdvance with the field toggled at the end of every line.
BeamAdvanceFieldPerLine(ln, cycle, flipper) ==
    LET cycle1 == cycle + 1
        end_of_line == cycle1 >= T_STATES_PER_LINE
        ln1 == IF end_of_line THEN ln + 1 ELSE ln
        end_of_frame == end_of_line /\ ln1 >= FIELD_LINES
        flipper1 == IF end_of_frame THEN flipper - 1 ELSE flipper
        flash == end_of_frame /\ flipper1 = 0
    IN [line |-> IF end_of_frame THEN 0 ELSE ln1,
        line_cycle |-> IF end_of_line THEN 0 ELSE cycle1,
        flash_flipper |-> IF flash THEN FLASH_RATE ELSE flipper1,
        toggle_flash |-> flash,
        toggle_field |-> end_of_line]

\* ULA.tick, "Update position counters" to the end: the beam position, the
\* flash countdown and which CRT toggles are called.
BeamAdvance(ln, cycle, flipper) ==
    LET cycle1 == cycle + 1
        end_of_line == cycle1 >= T_STATES_PER_LINE
        ln1 == IF end_of_line THEN ln + 1 ELSE ln
        end_of_frame == end_of_line /\ ln1 >= FIELD_LINES
        flipper1 == IF end_of_frame THEN flipper - 1 ELSE flipper
        flash == end_of_frame /\ flipper1 = 0
    IN [line |-> IF end_of_frame THEN 0 ELSE ln1,
        line_cycle |-> IF end_of_line THEN 0 ELSE cycle1,
        flash_flipper |-> IF flash THEN FLASH_RATE ELSE flipper1,
        toggle_flash |-> flash,
        toggle_field |-> end_of_frame]

\* No group of pixels has been drawn.
NoGroup ==
    [line |-> 0 - 1, column |-> 0 - 1, reads |-> <<>>, display_byte |-> 0,
     attr_byte |-> 0, offset_x |-> 0, offset_y |-> 0, bleed_y |-> 0, n |-> 0]

\* screen_update_full_jit up to the rows and the column of the pixels: the
\* group drawn for the cell (ln, column), old when the call returns in the
\* blanking interval.  reads are the memory addresses read, offset_y is
\* the framebuffer row of the pixels, bleed_y the row of the phosphor bleed
\* (after the clamp), offset_x the column of the first pixel, and n the
\* number of groups drawn so far.
screen_update_full_jit(old, mem, ln, column, border, top_blanking, visible_lines, crt_lines, odd) ==
    IF ln < top_blanking \/ ln >= top_blanking + visible_lines
    THEN old
    ELSE LET in_screen_line == ln >= SCREEN_START_LINE
                               /\ ln < SCREEN_START_LINE + SCREEN_HEIGHT
             in_screen_col == column >= SCREEN_START_COLUMN
                              /\ column < SCREEN_START_COLUMN
                                          + SCREEN_WIDTH_BYTES
             screen_line == ln - SCREEN_START_LINE
             screen_col == column - SCREEN_START_COLUMN
             display_addr == calculate_display_address(screen_line, screen_col)
             attr_addr == calculate_attr_address(screen_line, screen_col)
             adjusted_line == ln - top_blanking
             offset_y == adjusted_line * 2 + (IF odd THEN 1 ELSE 0)
             bleed_y == offset_y + (IF odd THEN 0 - 1 ELSE 1)
             min == IF bleed_y < crt_lines - 1 THEN bleed_y ELSE crt_lines - 1
             in_screen == in_screen_line /\ in_screen_col
         IN [line |-> ln, column |-> column,
             reads |-> IF in_screen THEN <<display_addr, attr_addr>> ELSE <<>>,
             display_byte |-> IF in_screen THEN MemRead(mem, display_addr)
                              ELSE 0,
             attr_byte |-> IF in_screen THEN MemRead(mem, attr_addr)
                           ELSE Shl(border, 3),
             offset_x |-> column * 8,
             offset_y |-> offset_y,
             bleed_y |-> IF 0 > min THEN 0 ELSE min,
             n |-> old.n + 1]

\* The write CPU.transact makes for the pins p: a byte of memory, or a
\* value handed to the ULA by the IO bus (the border colour), or none.
TransactWrite(p) ==
    LET none == [kind |-> "none", addr |-> 0, value |-> 0]
    IN IF p.mreq
       THEN IF ~p.rd /\ p.wr
            THEN [kind |-> "mem", addr |-> p.addr, value |-> p.data]
            ELSE none
       ELSE IF p.iorq /\ ~p.m1 /\ ~p.rd /\ p.wr
               /\ IOBusCalls(Devices, p.addr) # <<>>
       THEN [kind |-> "border", addr |-> 0, value |-> p.data]
       ELSE none

\* The group g samples what the write w writes.
Samples(g, w) ==
    \/ w.kind = "mem" /\ \E i \in DOMAIN g.reads : g.reads[i] = w.addr
    \/ w.kind = "border" /\ g.line >= 0 /\ g.reads = <<>>

\* No write has landed on a sample.
NoLanded == [kind |-> "none", addr |-> 0, value |-> 0, seen |-> FALSE]

\* The history `landed` after a T-state that made the write w and, when
\* drawn is true, drew the group g; changed tells that w changed the byte
\* (or the border colour) it wrote.  A write that lands is kept until what
\* it wrote is written again, or until it has been sampled again (seen) and
\* the group after that one is drawn.
Landed(old, w, changed, drawn, g) ==
    IF drawn /\ changed /\ Samples(g, w)
    THEN [kind |-> w.kind, addr |-> w.addr, value |-> w.value, seen |-> FALSE]
    ELSE IF w.kind # "none" /\ w.kind = old.kind /\ w.addr = old.addr
    THEN NoLanded
    ELSE IF drawn /\ old.seen
    THEN NoLanded
    ELSE IF drawn /\ Samples(g, old)
    THEN [old EXCEPT !.seen = TRUE]
    ELSE old

\* What ULA.tick reads and writes, as one value.
UlaState ==
    [line |-> line, line_cycle |-> line_cycle, current_column |-> current_column,
     flash_flipper |-> flash_flipper, border_color |-> border_color,
     odd_field |-> odd_field, flash_inverted |-> flash_inverted,
     ram |-> ram, pins |-> pins,
     fields |-> fields, flash_toggles |-> flash_toggles,
     group |-> group, landed |-> landed]

\* UlaTick with the pixels sampled after the bus transaction.
UlaTickSampleLate(u, out, rws) ==
    LET visible == u.line >= TOP_BLANKING
                   /\ u.line < FIELD_LINES - BOTTOM_BLANKING
        active_display_area == u.line_cycle < COLUMNS * 4
        column_update_needed == u.line_cycle % 4 = 0
        tr == Transact(CpuTick(u.pins, out), u.ram, u.border_color, rws)
        drawn == visible /\ active_display_area /\ column_update_needed
        g == IF drawn
             THEN screen_update_full_jit(u.group, tr.ram, u.line,
                                         u.line_cycle \div 4, tr.border_color,
                                         TOP_BLANKING,
                                         FIELD_LINES - BOTTOM_BLANKING,
                                         CRT_LINES, u.odd_field)
             ELSE u.group
        w == TransactWrite(CpuTick(u.pins, out))
        changed == IF w.kind = "mem"
                   THEN MemRead(tr.ram, w.addr) # MemRead(u.ram, w.addr)
                   ELSE tr.border_color # u.border_color
        beam == BeamAdvance(u.line, u.line_cycle, u.flash_flipper)
    IN [line |-> beam.line,
        line_cycle |-> beam.line_cycle,
        current_column |->
            IF drawn
            THEN u.line_cycle \div 4
            ELSE u.current_column,
        flash_flipper |-> beam.flash_flipper,
        border_color |-> tr.border_color,
        odd_field |-> IF beam.toggle_field THEN ~u.odd_field ELSE u.odd_field,
        flash_inverted |-> IF beam.toggle_flash THEN ~u.flash_inverted
                           ELSE u.flash_inverted,
        ram |-> tr.ram,
        pins |-> UlaInterrupt(tr.pins, u.line, u.line_cycle + 1),
        fields |-> IF beam.toggle_field THEN u.fields + 1 ELSE u.fields,
        flash_toggles |-> IF beam.toggle_flash THEN u.flash_toggles + 1
                          ELSE u.flash_toggles,
        group |-> g,
        landed |-> Landed(u.landed, w, changed, drawn, g)]

\* ULA.tick on the state u, with the pins `out` coming from the core and the
\* keyboard rows rws.
UlaTick(u, out, rws) ==
    LET visible == u.line >= TOP_BLANKING
                   /\ u.line < FIELD_LINES - BOTTOM_BLANKING
        active_display_area == u.line_cycle < COLUMNS * 4
        column_update_needed == u.line_cycle % 4 = 0
        drawn == visible /\ active_display_area /\ column_update_needed
        g == IF drawn
             THEN screen_update_full_jit(u.group, u.ram, u.line,
                                         u.line_cycle \div 4, u.border_color,
                                         TOP_BLANKING,
                                         FIELD_LINES - BOTTOM_BLANKING,
                                         CRT_LINES, u.odd_field)
             ELSE u.group
        tr == Transact(CpuTick(u.pins, out), u.ram, u.border_color, rws)
        w == TransactWrite(CpuTick(u.pins, out))
        changed == IF w.kind = "mem"
                   THEN MemRead(tr.ram, w.addr) # MemRead(u.ram, w.addr)
                   ELSE tr.border_color # u.border_color
        beam == BeamAdvance(u.line, u.line_cycle, u.flash_flipper)
    IN [line |-> beam.line,
        line_cycle |-> beam.line_cycle,
        current_column |->
            IF drawn
            THEN u.line_cycle \div 4
            ELSE u.current_column,
        flash_flipper |-> beam.flash_flipper,
        border_color |-> tr.border_color,
        odd_field |-> IF beam.toggle_field THEN ~u.odd_field ELSE u.odd_field,
        flash_inverted |-> IF beam.toggle_flash THEN ~u.flash_inverted
                           ELSE u.flash_inverted,
        ram |-> tr.ram,
        pins |-> UlaInterrupt(tr.pins, u.line, u.line_cycle + 1),
        fields |-> IF beam.toggle_field THEN u.fields + 1 ELSE u.fields,
        flash_toggles |-> IF beam.toggle_flash THEN u.flash_toggles + 1
                          ELSE u.flash_toggles,
        group |-> g,
        landed |-> Landed(u.landed, w, changed, drawn, g)]

\* k iterations of the inner loop of System.run in which the core puts out
\* the pins `out` every time.  The iterations are split in two halves, the
\* first evaluated before the second is begun.
RECURSIVE RunTicks(_, _, _, _)
RunTicks(u, out, rws, k) ==
    IF k = 0 THEN u
    ELSE IF k = 1 THEN UlaTick(u, out, rws)
    ELSE CHOOSE r \in {RunTicks(h, out, rws, k - (k \div 2)) :
                          h \in {RunTicks(u, out, rws, k \div 2)}} : TRUE

\* The state u becomes the state of the ULA, the CRT, the memory and the
\* pins.
UlaAssign(u) ==
    /\ line' = u.line
    /\ line_cycle' = u.line_cycle
    /\ current_column' = u.current_column
    /\ flash_flipper' = u.flash_flipper
    /\ border_color' = u.border_color
    /\ odd_field' = u.odd_field
    /\ flash_inverted' = u.flash_inverted
    /\ ram' = u.ram
    /\ pins' = u.pins
    /\ fields' = u.fields
    /\ flash_toggles' = u.flash_toggles
    /\ group' = u.group
    /\ landed' = u.landed

\* One iteration of the inner loop of System.run: ULA.tick with the pins
\* `out` coming from the core, then current_t_state += 1.
Tick(out) ==
    /\ pc = "chunk"
    /\ current_t_state < target_t_state
    /\ \E u \in {UlaTick(UlaState, out, rows)} : UlaAssign(u)
    /\ current_t_state' = current_t_state + 1
    /\ UNCHANGED <<pc, quit, target_t_state, rows, z80, down, arg, ret,
                   runVars>>

\* The inner loop of System.run from its current iteration to its last,
\* the core putting out the pins `out` in every one.
RunChunk(out) ==
    /\ pc = "chunk"
    /\ current_t_state < target_t_state
    /\ \E u \in {RunTicks(UlaState, out, rows,
                           target_t_state - current_t_state)} : UlaAssign(u)
    /\ current_t_state' = target_t_state
    /\ UNCHANGED <<pc, quit, target_t_state, rows, z80, down, arg, ret,
                   runVars>>

-----------------------------------------------------------------------------
(* The earlier emulator (src/Challenge07/pyse.py): the memory accesses of  *)
(* its CPU.transact, and its ULA.tick.                                     *)

\* The addresses at which CPU.transact of the earlier emulator indexes the
\* memory for the pins p and the registers z, in the order of the accesses.
\* The reads made in the arguments of debug_print are made whether or not
\* the debug flag is set: on an interrupt acknowledge in interrupt mode 2
\* the vector address (I << 8) | 0xFF and the address after it are read.
TransactAccesses07(p, z) ==
    IF p.mreq
    THEN IF p.rd \/ p.wr THEN <<p.addr>> ELSE <<>>
    ELSE IF p.iorq /\ p.m1 /\ z.im = 2
    THEN LET vector_addr == BitOr(Shl(z.i, 8), 255)
         IN <<vector_addr, vector_addr + 1>>
    ELSE <<>>

\* One iteration of the inner loop of System.run of the earlier emulator.
\* Memory.read and Memory.write index the 65536-byte array with the address
\* as it is: an address outside it raises IndexError in cpu.transact, after
\* the pixels of the T-state are drawn and before the beam is moved.
Tick07(out) ==
    IF \A i \in DOMAIN TransactAccesses07(CpuTick(pins, out), z80) :
          TransactAccesses07(CpuTick(pins, out), z80)[i] \in 0..(MEM_SIZE - 1)
    THEN Tick(out)
    ELSE /\ pc = "chunk"
         /\ current_t_state < target_t_state
         /\ pc' = "error"
         /\ pins' = CpuTick(pins, out)
         /\ \E u \in {UlaTick(UlaState, out, rows)} :
               /\ current_column' = u.current_column
               /\ group' = u.group
         /\ UNCHANGED <<quit, current_t_state, target_t_state, line,
                        line_cycle, flash_flipper, border_color, crtVars, rows,
                        ram, z80, fields, flash_toggles, landed, down,
                        calcVars, runVars>>

-----------------------------------------------------------------------------
(* System.run: the event loop.                                             *)

\* run is entered: quit = False, and the first refresh is due one frame
\* from now.
RunStart ==
    /\ pc \in {"init", "loaded"}
    /\ pc' = "events"
    /\ quit' = FALSE
    /\ next_refresh_t_state' = current_t_state + T_STATES_PER_FRAME
    /\ UNCHANGED <<current_t_state, target_t_state, ulaVars, crtVars, rows, ram,
                   pins, z80, histVars, refreshes, down, calcVars>>

\* An SDL_QUIT event is polled.
EventQuit ==
    /\ pc = "events"
    /\ quit' = TRUE
    /\ UNCHANGED <<pc, current_t_state, target_t_state, ulaVars, crtVars, rows,
                   ram, pins, z80, histVars, runVars, down, calcVars>>

\* An SDL_KEYDOWN event is polled.
EventKeyDown(scancode) ==
    /\ pc = "events"
    /\ quit' = IF scancode = SDL_SCANCODE.ESCAPE THEN TRUE ELSE quit
    /\ border_color' =
           IF scancode # SDL_SCANCODE.ESCAPE
              /\ scancode >= SDL_SCANCODE.K0 /\ scancode <= SDL_SCANCODE.K7
           THEN SetBorderColor(scancode - SDL_SCANCODE.K0)
           ELSE border_color
    /\ rows' = KeyPress(rows, scancode)
    /\ down' = IF scancode \in DOMAIN key_map
               THEN down \cup {key_map[scancode]} ELSE down
    /\ UNCHANGED <<pc, current_t_state, target_t_state, line, line_cycle,
                   current_column, flash_flipper, crtVars, ram, pins, z80,
                   histVars, runVars, calcVars>>

\* An SDL_KEYUP event is polled.
EventKeyUp(scancode) ==
    /\ pc = "events"
    /\ rows' = KeyRelease(rows, scancode)
    /\ down' = IF scancode \in DOMAIN key_map
               THEN down \ {key_map[scancode]} ELSE down
    /\ UNCHANGED <<pc, quit, current_t_state, target_t_state, ulaVars, crtVars,
                   ram, pins, z80, histVars, runVars, calcVars>>

\* An SDL_KEYDOWN or SDL_KEYUP event is polled, as in EventKeyDown and
\* EventKeyUp, and the event is appended to ret, the sequence of the key
\* events polled since construction.
KeyEvent(type, scancode) ==
    /\ pc = "events"
    /\ Len(ret) < MaxKeyEvents
    /\ quit' = IF type = "SDL_KEYDOWN" /\ scancode = SDL_SCANCODE.ESCAPE
               THEN TRUE ELSE quit
    /\ border_color' =
           IF type = "SDL_KEYDOWN"
              /\ scancode # SDL_SCANCODE.ESCAPE
              /\ scancode >= SDL_SCANCODE.K0 /\ scancode <= SDL_SCANCODE.K7
           THEN SetBorderColor(scancode - SDL_SCANCODE.K0)
           ELSE border_color
    /\ rows' = IF type = "SDL_KEYDOWN" THEN KeyPress(rows, scancode)
               ELSE KeyRelease(rows, scancode)
    /\ down' = IF scancode \in DOMAIN key_map
               THEN IF type = "SDL_KEYDOWN"
                    THEN down \cup {key_map[scancode]}
                    ELSE down \ {key_map[scancode]}
               ELSE down
    /\ ret' = Append(ret, [type |-> type, scancode |-> scancode])
    /\ UNCHANGED <<pc, current_t_state, target_t_state, line, line_cycle,
                   current_column, flash_flipper, crtVars, ram, pins, z80,
                   histVars, runVars, arg>>

\* A variant of ChunkStart in which the chunk is one T-state short.
ChunkStartShort ==
    /\ pc = "events"
    /\ pc' = "chunk"
    /\ target_t_state' = current_t_state + CHUNK_SIZE - 1
    /\ UNCHANGED <<quit, current_t_state, ulaVars, crtVars, rows, ram, pins, z80,
                   histVars, runVars, down, calcVars>>

\* No event is left: target_t_state = current_t_state + CHUNK_SIZE.
ChunkStart ==
    /\ pc = "events"
    /\ pc' = "chunk"
    /\ target_t_state' = current_t_state + CHUNK_SIZE
    /\ UNCHANGED <<quit, current_t_state, ulaVars, crtVars, rows, ram, pins, z80,
                   histVars, runVars, down, calcVars>>

\* A variant of ChunkEnd that refreshes only when the refresh is overdue.
ChunkEndLate ==
    /\ pc = "chunk"
    /\ ~(current_t_state < target_t_state)
    /\ pc' = IF quit THEN "returned" ELSE "events"
    /\ IF current_t_state > next_refresh_t_state
       THEN /\ refreshes' = refreshes + 1
            /\ next_refresh_t_state' = next_refresh_t_state + T_STATES_PER_FRAME
       ELSE UNCHANGED <<refreshes, next_refresh_t_state>>
    /\ UNCHANGED <<quit, current_t_state, target_t_state, ulaVars, crtVars, rows,
                   ram, pins, z80, histVars, down, calcVars>>

\* The inner loop ends; the display is refreshed when the refresh is due,
\* and the outer loop tests `not quit`.
ChunkEnd ==
    /\ pc = "chunk"
    /\ ~(current_t_state < target_t_state)
    /\ pc' = IF quit THEN "returned" ELSE "events"
    /\ IF current_t_state >= next_refresh_t_state
       THEN /\ refreshes' = refreshes + 1
            /\ next_refresh_t_state' = next_refresh_t_state + T_STATES_PER_FRAME
       ELSE UNCHANGED <<refreshes, next_refresh_t_state>>
    /\ UNCHANGED <<quit, current_t_state, target_t_state, ulaVars, crtVars, rows,
                   ram, pins, z80, histVars, down, calcVars>>

-----------------------------------------------------------------------------
(* System.run, iteration by iteration, as a function of the state of one   *)
(* run, and two runs side by side.  A run is the record of the ULA state   *)
(* (with the memory and the pins), the keyboard rows, the quit flag,       *)
(* current_t_state and the clock fields frame_count, fps and last_time of  *)
(* System.  Times are in milliseconds; fps is kept as the pair of the      *)
(* frames counted and the time elapsed.                                    *)

\* One event of the poll loop applied to the run r.
PollEvent(r, ev) ==
    IF ev.type = "SDL_QUIT" THEN [r EXCEPT !.quit = TRUE]
    ELSE IF ev.type = "SDL_KEYDOWN"
    THEN [r EXCEPT
            !.quit = IF ev.scancode = SDL_SCANCODE.ESCAPE THEN TRUE ELSE @,
            !.u.border_color =
                IF ev.scancode # SDL_SCANCODE.ESCAPE
                   /\ ev.scancode >= SDL_SCANCODE.K0
                   /\ ev.scancode <= SDL_SCANCODE.K7
                THEN SetBorderColor(ev.scancode - SDL_SCANCODE.K0)
                ELSE @,
            !.rows = KeyPress(@, ev.scancode)]
    ELSE IF ev.type = "SDL_KEYUP"
    THEN [r EXCEPT !.rows = KeyRelease(@, ev.scancode)]
    ELSE r

\* A variant of ChunkOf in which a run whose FPS counter has been updated
\* drops the last T-state of the chunk.
ChunkOfCatchUp(r, out) ==
    [r EXCEPT !.u = RunTicks(@, out, r.rows,
                             IF r.last_time > 0 THEN CHUNK_SIZE - 1
                             ELSE CHUNK_SIZE),
              !.current_t_state = @ + CHUNK_SIZE]

\* The chunk of the run r, the core putting out the pins `out`: the inner
\* loop runs CHUNK_SIZE times.
ChunkOf(r, out) ==
    [r EXCEPT !.u = RunTicks(@, out, r.rows, CHUNK_SIZE),
              !.current_t_state = @ + CHUNK_SIZE]

\* The FPS calculation after the chunk, time.time() returning
\* current_time, and the refresh when it is due.  The sleep that follows
\* changes no field of the run, whatever the second reading of the clock
\* is.
FpsUpdate(r, current_time) ==
    LET elapsed == current_time - r.last_time
        f == IF elapsed >= fps_update_interval
             THEN [r EXCEPT !.fps = <<r.frame_count + 1, elapsed>>,
                            !.frame_count = 0,
                            !.last_time = current_time]
             ELSE [r EXCEPT !.frame_count = @ + 1]
    IN IF r.current_t_state >= r.next_refresh_t_state
       THEN [f EXCEPT !.refreshes = @ + 1,
                      !.next_refresh_t_state = @ + T_STATES_PER_FRAME]
       ELSE f

\* The first run is the state of the system; arg keeps its clock fields.
TwinRun ==
    [u |-> UlaState, rows |-> rows, quit |-> quit,
     current_t_state |-> current_t_state, frame_count |-> arg.frame_count,
     fps |-> arg.fps, last_time |-> arg.last_time,
     next_refresh_t_state |-> next_refresh_t_state, refreshes |-> refreshes]

\* The run r becomes the state of the system.
TwinAssign(r) ==
    /\ UlaAssign(r.u)
    /\ rows' = r.rows
    /\ quit' = r.quit
    /\ current_t_state' = r.current_t_state
    /\ arg' = [frame_count |-> r.frame_count, fps |-> r.fps,
               last_time |-> r.last_time]
    /\ next_refresh_t_state' = r.next_refresh_t_state
    /\ refreshes' = r.refreshes

\* run is entered in both runs, from the same state: ret is the second
\* run.
TwinStart ==
    /\ pc = "init"
    /\ pc' = "events"
    /\ quit' = FALSE
    /\ arg' = [frame_count |-> 0, fps |-> <<0, 1>>, last_time |-> 0]
    /\ next_refresh_t_state' = current_t_state + T_STATES_PER_FRAME
    /\ ret' = [u |-> UlaState, rows |-> rows, quit |-> FALSE,
               current_t_state |-> current_t_state, frame_count |-> 0,
               fps |-> <<0, 1>>, last_time |-> 0,
               next_refresh_t_state |-> current_t_state + T_STATES_PER_FRAME,
               refreshes |-> refreshes]
    /\ UNCHANGED <<current_t_state, target_t_state, ulaVars, crtVars, rows, ram,
                   pins, z80, histVars, refreshes, down>>

\* The same event is polled in both runs.
TwinEvent(ev) ==
    /\ pc = "events"
    /\ TwinAssign(PollEvent(TwinRun, ev))
    /\ ret' = PollEvent(ret, ev)
    /\ UNCHANGED <<pc, target_t_state, z80, down>>

\* No event is left in either run (ChunkStart), and both runs run their
\* chunk, each from its own state.
TwinChunk(out) ==
    /\ pc = "chunk"
    /\ pc' = "fps"
    /\ \E a \in {ChunkOf(TwinRun, out)} : TwinAssign(a)
    /\ \E b \in {ChunkOf(ret, out)} : ret' = b
    /\ UNCHANGED <<target_t_state, z80, down>>

\* The FPS calculation, the refresh and the sleep of both runs; the clock
\* of the first run reads ta and that of the second tb.
TwinFps(ta, tb) ==
    /\ pc = "fps"
    /\ pc' = IF quit THEN "returned" ELSE "events"
    /\ TwinAssign(FpsUpdate(TwinRun, ta))
    /\ ret' = FpsUpdate(ret, tb)
    /\ UNCHANGED <<target_t_state, z80, down>>

-----------------------------------------------------------------------------
(* Memory.load_from_file, and the calls of the Memory methods.             *)

\* Memory.load_from_file(f, addr, size): RuntimeError ("File too small")
\* when the file is shorter than size, else the first size bytes are
\* stored at addr and the caller goes on at `to`.
LoadFromFile(f, addr, size, to) ==
    IF f.size < size
    THEN /\ pc' = "aborted"
         /\ ram' = ram
    ELSE /\ pc' = to
         /\ ram' = MemLoad(ram, addr, size, f, 0)

\* memory.load_from_file is called; ret keeps the arguments.
LoadFromFileCall(f, addr, size) ==
    /\ pc = "init"
    /\ LoadFromFile(f, addr, size, "init")
    /\ ret' = [file |-> f, addr |-> addr, size |-> size]
    /\ UNCHANGED <<quit, current_t_state, target_t_state, ulaVars, crtVars,
                   rows, pins, z80, histVars, runVars, down, arg>>

\* memory.write is called.
MemoryWriteCall(address, value) ==
    /\ pc = "init"
    /\ ram' = MemWrite(ram, address, value)
    /\ UNCHANGED <<pc, quit, current_t_state, target_t_state, ulaVars,
                   crtVars, rows, pins, z80, histVars, runVars, down, calcVars>>

-----------------------------------------------------------------------------
(* System.load_sna.                                                        *)

\* ReadInt with the bytes taken big-endian.
RECURSIVE ReadIntBig(_, _, _)
ReadIntBig(f, pos, n) ==
    IF n = 0 \/ pos >= f.size THEN 0
    ELSE FileByte(f, pos) * Shl(1, 8 * (n - 1)) + ReadIntBig(f, pos + 1, n - 1)

\* int.from_bytes(f.read(n), 'little') at file position pos: the bytes the
\* file still has, at most n of them.
RECURSIVE ReadInt(_, _, _)
ReadInt(f, pos, n) ==
    IF n = 0 \/ pos >= f.size THEN 0
    ELSE FileByte(f, pos) + 256 * ReadInt(f, pos + 1, n - 1)

\* The registers after the header of f is read.
SnaRegisters(f) ==
    LET iff2 == BitAnd(ReadInt(f, 19, 1), 4) # 0
    IN [pc |-> SNA_PC,
        i |-> ReadInt(f, 0, 1),
        hl_prime |-> ReadInt(f, 1, 2),
        de_prime |-> ReadInt(f, 3, 2),
        bc_prime |-> ReadInt(f, 5, 2),
        af_prime |-> ReadInt(f, 7, 2),
        hl |-> ReadInt(f, 9, 2),
        de |-> ReadInt(f, 11, 2),
        bc |-> ReadInt(f, 13, 2),
        iy |-> ReadInt(f, 15, 2),
        ix |-> ReadInt(f, 17, 2),
        iff2 |-> iff2,
        iff1 |-> iff2,
        r |-> ReadInt(f, 20, 1),
        af |-> ReadInt(f, 21, 2),
        sp |-> ReadInt(f, 23, 2),
        im |-> ReadInt(f, 25, 1)]

\* SnaRamLength with the header counted as payload.
SnaRamLengthHeader(f) ==
    IF f.size < SNA_RAM_SIZE THEN f.size ELSE SNA_RAM_SIZE

\* len(f.read(49152)) after the 27 header bytes.
SnaRamLength(f) ==
    IF f.size <= 27 THEN 0
    ELSE IF f.size - 27 < SNA_RAM_SIZE THEN f.size - 27 ELSE SNA_RAM_SIZE

LoadSna(f) ==
    /\ pc = "init"
    /\ pins' = NoPins
    /\ z80' = SnaRegisters(f)
    /\ border_color' = SetBorderColor(BitAnd(ReadInt(f, 26, 1), 7))
    /\ IF SnaRamLength(f) < SNA_RAM_SIZE
       THEN /\ pc' = "aborted"
            /\ ram' = ram
       ELSE /\ pc' = "loaded"
            /\ ram' = MemLoad(ram, ROM_END, SNA_RAM_SIZE, f, 27)
    /\ UNCHANGED <<quit, current_t_state, target_t_state, line, line_cycle,
                   current_column, flash_flipper, crtVars, rows, histVars, runVars, down,
                   calcVars>>

-----------------------------------------------------------------------------
(* main: the file arguments are sorted by their suffix, then the ROM, the  *)
(* snapshot and the screen files are loaded and the loop is run.  An       *)
(* argument is its suffix (ext) and the file of its name.                  *)

\* The ROM main loads when no .rom argument is given: "48.rom".
Rom48 == [size |-> 16384, seed |-> 48, head |-> <<>>]

\* MainFiles with the screen files taken last argument first.
MainFilesReversed(args) ==
    LET IsRom(a) == a.ext = "rom"
        IsSna(a) == a.ext = "sna"
        IsScr(a) == a.ext = "scr"
        roms == SelectSeq(args, IsRom)
        snas == SelectSeq(args, IsSna)
        scrs == SelectSeq(args, IsScr)
    IN [rom_file |-> IF roms = <<>> THEN Rom48 ELSE roms[Len(roms)].file,
        sna_file |-> IF snas = <<>> THEN <<>> ELSE <<snas[Len(snas)].file>>,
        scr_files |-> [j \in 1..Len(scrs) |-> scrs[Len(scrs) + 1 - j].file]]

\* main, "Process command line arguments for loading files": rom_file and
\* sna_file are the last arguments of their suffix (sna_file is empty when
\* there is none), scr_files the .scr arguments in their order.  For an
\* argument of another suffix main prints "Unknown file type" and goes on
\* to the next argument.
MainFiles(args) ==
    LET IsRom(a) == a.ext = "rom"
        IsSna(a) == a.ext = "sna"
        IsScr(a) == a.ext = "scr"
        roms == SelectSeq(args, IsRom)
        snas == SelectSeq(args, IsSna)
        scrs == SelectSeq(args, IsScr)
    IN [rom_file |-> IF roms = <<>> THEN Rom48 ELSE roms[Len(roms)].file,
        sna_file |-> IF snas = <<>> THEN <<>> ELSE <<snas[Len(snas)].file>>,
        scr_files |-> [j \in 1..Len(scrs) |-> scrs[j].file]]

\* main, "Load ROM first": system.load_rom.
MainLoadRom ==
    /\ pc = "main"
    /\ LoadFromFile(MainFiles(arg).rom_file, 0, 16384, "init")
    /\ UNCHANGED <<quit, current_t_state, target_t_state, ulaVars, crtVars,
                   rows, pins, z80, histVars, runVars, down, calcVars>>

\* main, "Then load snapshot if available": system.load_sna, or nothing.
MainLoadSna ==
    /\ pc = "init"
    /\ IF MainFiles(arg).sna_file # <<>>
       THEN LoadSna(MainFiles(arg).sna_file[1])
       ELSE /\ pc' = "loaded"
            /\ UNCHANGED <<quit, current_t_state, target_t_state, ulaVars,
                           crtVars, rows, ram, pins, z80, histVars, runVars, down,
                           calcVars>>

\* main, "Finally load any screen files": the next system.load_scr of the
\* loop; the files loaded so far are the layers of the memory after those
\* of the ROM and of the snapshot.
MainLoadScr ==
    LET files == MainFiles(arg)
        n == Len(ram.layers) - 1 - Len(files.sna_file)
    IN /\ pc = "loaded"
       /\ n < Len(files.scr_files)
       /\ LoadFromFile(files.scr_files[n + 1], 16384, 6912, "loaded")
       /\ UNCHANGED <<quit, current_t_state, target_t_state, ulaVars,
                      crtVars, rows, pins, z80, histVars, runVars, down, calcVars>>

\* main: system.run() once the loop over scr_files has ended.
MainRun ==
    LET files == MainFiles(arg)
    IN /\ Len(ram.layers) - 1 - Len(files.sna_file) = Len(files.scr_files)
       /\ pc = "loaded"
       /\ RunStart

-----------------------------------------------------------------------------
(* The screen addresses of one cell, as screen_update_full_jit computes    *)
(* them for screen_line = arg[1], screen_col = arg[2].                     *)

CalcAddress ==
    /\ pc = "calc"
    /\ pc' = "calcdone"
    /\ ret' = <<calculate_display_address(arg[1], arg[2]),
                calculate_attr_address(arg[1], arg[2])>>
    /\ UNCHANGED <<quit, current_t_state, target_t_state, ulaVars, crtVars, rows,
                   ram, pins, z80, histVars, runVars, down, arg>>

-----------------------------------------------------------------------------
(* The pixels of a group.  A pixel is a 32-bit word 0xRRGGBBAA, kept as    *)
(* its four bytes <<R, G, B, A>>, the most significant first.              *)

\* rgba_color_table with blue and red exchanged.
rgba_color_table_swapped ==
    <<<<0, 0, 0, 255>>, <<255, 0, 0, 255>>, <<0, 0, 255, 255>>,
      <<255, 0, 255, 255>>, <<0, 255, 0, 255>>, <<0, 255, 255, 255>>,
      <<255, 255, 0, 255>>, <<255, 255, 255, 255>>>>

\* CRT.rgba_color_table
rgba_color_table ==
    <<<<0, 0, 0, 255>>, <<0, 0, 255, 255>>, <<255, 0, 0, 255>>,
      <<255, 0, 255, 255>>, <<0, 255, 0, 255>>, <<0, 255, 255, 255>>,
      <<255, 255, 0, 255>>, <<255, 255, 255, 255>>>>

\* w >> (k + 1)
Shr32Extra(w, k) ==
    [i \in 1..4 |-> (w[i] \div 2^(k + 1))
                    + (IF i = 1 THEN 0
                       ELSE (w[i - 1] % 2^(k + 1)) * 2^(8 - (k + 1)))]

\* w >> k of a 32-bit word, 0 < k < 8: every byte takes the low k bits of
\* the byte above it as its high bits.
Shr32(w, k) ==
    [i \in 1..4 |-> (w[i] \div 2^k)
                    + (IF i = 1 THEN 0 ELSE (w[i - 1] % 2^k) * 2^(8 - k))]

\* screen_update_full_jit from the parsing of the attribute byte on: the
\* pixels it stores for the group g.  main[k] and bleed[k] are the old
\* pixels at x = offset_x + k of the rows offset_y and bleed_y; the result
\* has the new ones.  The product by 27 is taken byte by byte with the
\* carries, and a store into the uint32 array keeps the low 32 bits.
screen_update_full_jit_pixels(main, bleed, g, flash_inv) ==
    LET And32(a, b) == [i \in 1..4 |-> BitAnd(a[i], b[i])]
        Or32(a, b) == [i \in 1..4 |-> BitOr(a[i], b[i])]
        Mul32(a, m) ==
            LET t4 == a[4] * m
                t3 == a[3] * m + (t4 \div 256)
                t2 == a[2] * m + (t3 \div 256)
                t1 == a[1] * m + (t2 \div 256)
            IN <<t1 % 256, t2 % 256, t3 % 256, t4 % 256>>
        flash == BitAnd(g.attr_byte, 128) # 0
        bright == BitAnd(g.attr_byte, 64) # 0
        paper0 == BitAnd(Shr(g.attr_byte, 3), 7)
        ink0 == BitAnd(g.attr_byte, 7)
        paper == IF flash /\ flash_inv THEN ink0 ELSE paper0
        ink == IF flash /\ flash_inv THEN paper0 ELSE ink0
        paper_color == rgba_color_table[paper + 1]
        ink_color == rgba_color_table[ink + 1]
        Bleed(c) ==
            IF ~bright
            THEN Or32(And32(Shr32(c, 1), <<127, 127, 127, 127>>),
                      <<0, 0, 0, 255>>)
            ELSE Or32(Mul32(And32(Shr32(c, 3), <<7, 7, 7, 7>>), 27),
                      <<0, 0, 0, 255>>)
        pixel_set(bit) == BitAnd(g.display_byte, Shl(1, bit)) # 0
        Fade(old) == And32(Shr32(old, 2), <<63, 63, 63, 63>>)
    IN [main |-> [k \in 0..7 |->
                     Or32(Fade(main[k]),
                          IF pixel_set(7 - k) THEN ink_color
                          ELSE paper_color)],
        bleed |-> [k \in 0..7 |->
                      Or32(Fade(bleed[k]),
                           IF pixel_set(7 - k) THEN Bleed(ink_color)
                           ELSE Bleed(paper_color))]]

\* screen_update_full_jit is called for the cell and the pixels of arg, on
\* a memory that holds the bytes of arg at the addresses of the cell.  A
\* call that returns in the blanking interval stores no pixel.  The rows
\* are not tested against the framebuffer before the stores (nopython
\* mode): with the main row outside it, the call either raises IndexError
\* at the first store or stores outside the array and goes on to store the
\* pixels of the bleed row, which the clamp keeps inside.
ScreenUpdate ==
    /\ pc = "calc"
    /\ \E g \in {screen_update_full_jit(
                    NoGroup,
                    MemWrite(MemWrite(ram,
                                 calculate_display_address(
                                     arg.line - SCREEN_START_LINE,
                                     arg.column - SCREEN_START_COLUMN),
                                 arg.display_byte),
                             calculate_attr_address(
                                 arg.line - SCREEN_START_LINE,
                                 arg.column - SCREEN_START_COLUMN),
                             arg.attr_byte),
                    arg.line, arg.column, arg.border_color, TOP_BLANKING,
                    FIELD_LINES - BOTTOM_BLANKING, CRT_LINES,
                    arg.odd_field)} :
       \E px \in {screen_update_full_jit_pixels(
                      [k \in 0..7 |-> arg.main],
                      [k \in 0..7 |-> arg.bleed], g,
                      arg.flash_inverted)} :
          IF g.n = 0
          THEN /\ pc' = "calcdone"
               /\ ret' = [g |-> g,
                          pixels |-> [main |-> [k \in 0..7 |-> arg.main],
                                      bleed |-> [k \in 0..7 |-> arg.bleed]]]
          ELSE IF g.offset_y \in 0..(CRT_LINES - 1)
          THEN /\ pc' = "calcdone"
               /\ ret' = [g |-> g, pixels |-> px]
          ELSE \/ /\ pc' = "error"
                  /\ ret' = [g |-> g,
                             pixels |-> [main |-> [k \in 0..7 |-> arg.main],
                                         bleed |-> [k \in 0..7 |-> arg.bleed]]]
               \/ /\ pc' = "calcdone"
                  /\ ret' = [g |-> g,
                             pixels |-> [main |-> [k \in 0..7 |-> arg.main],
                                         bleed |-> px.bleed]]
    /\ UNCHANGED <<quit, current_t_state, target_t_state, ulaVars, crtVars, rows,
                   ram, pins, z80, histVars, runVars, down, arg>>

-----------------------------------------------------------------------------
(* The earlier emulator (src/Challenge07/pyse.py): its pixel update and    *)
(* its ULA.tick, and the two emulators run side by side.                   *)

\* update_pixels_jit of the earlier emulator up to the rows and the column
\* of the pixels: the group drawn for the cell (ln, column) with the bytes
\* ULA.tick read at the addresses `reads`, old when the call returns in
\* the blanking interval.
update_pixels_jit(old, ln, column, reads, display_byte, attr_byte, top_blanking, visible_lines, crt_lines, odd) ==
    IF ln < top_blanking \/ ln >= top_blanking + visible_lines
    THEN old
    ELSE LET line1 == ln - top_blanking
             line2 == line1 * 2 + (IF odd THEN 1 ELSE 0)
             offset_y == line2
             bleed_y == offset_y + (IF odd THEN 0 - 1 ELSE 1)
             min == IF bleed_y < crt_lines - 1 THEN bleed_y ELSE crt_lines - 1
         IN [line |-> ln, column |-> column, reads |-> reads,
             display_byte |-> display_byte, attr_byte |-> attr_byte,
             offset_x |-> column * 8,
             offset_y |-> offset_y,
             bleed_y |-> IF 0 > min THEN 0 ELSE min,
             n |-> old.n + 1]

\* update_pixels_jit from the parsing of the attribute byte on: the pixels
\* it stores for the group g, main[k] and bleed[k] being the old pixels at
\* x = offset_x + k of the rows offset_y and bleed_y.  The bleed colour is
\* computed for every pixel from the colour of the pixel.
update_pixels_jit_pixels(main, bleed, g, flash_inv) ==
    LET And32(a, b) == [i \in 1..4 |-> BitAnd(a[i], b[i])]
        Or32(a, b) == [i \in 1..4 |-> BitOr(a[i], b[i])]
        Mul32(a, m) ==
            LET t4 == a[4] * m
                t3 == a[3] * m + (t4 \div 256)
                t2 == a[2] * m + (t3 \div 256)
                t1 == a[1] * m + (t2 \div 256)
            IN <<t1 % 256, t2 % 256, t3 % 256, t4 % 256>>
        flash == BitAnd(g.attr_byte, 128) # 0
        bright == BitAnd(g.attr_byte, 64) # 0
        paper0 == BitAnd(Shr(g.attr_byte, 3), 7)
        ink0 == BitAnd(g.attr_byte, 7)
        paper == IF flash /\ flash_inv THEN ink0 ELSE paper0
        ink == IF flash /\ flash_inv THEN paper0 ELSE ink0
        paper_color == rgba_color_table[paper + 1]
        ink_color == rgba_color_table[ink + 1]
        pixel_set(bit) == BitAnd(g.display_byte, Shl(1, bit)) # 0
        color(bit) == IF pixel_set(bit) THEN ink_color ELSE paper_color
        bleed_color(bit) ==
            IF ~bright
            THEN Or32(And32(Shr32(color(bit), 1), <<127, 127, 127, 127>>),
                      <<0, 0, 0, 255>>)
            ELSE Or32(Mul32(And32(Shr32(color(bit), 3), <<7, 7, 7, 7>>), 27),
                      <<0, 0, 0, 255>>)
        Fade(old) == And32(Shr32(old, 2), <<63, 63, 63, 63>>)
    IN [main |-> [k \in 0..7 |-> Or32(Fade(main[k]), color(7 - k))],
        bleed |-> [k \in 0..7 |-> Or32(Fade(bleed[k]), bleed_color(7 - k))]]

\* ULA.tick of the earlier emulator on the state u, with the pins `out`
\* coming from the core, the keyboard rows rws and the registers z.  The
\* result is the state after the tick, or, with error set, the state in
\* which cpu.transact raised IndexError: the pixels of the T-state are
\* drawn, the beam has not moved.
UlaTick07(u, out, rws, z) ==
    LET visible == u.line >= TOP_BLANKING
                   /\ u.line < FIELD_LINES - BOTTOM_BLANKING
        in_screen_line == u.line >= SCREEN_START_LINE
                          /\ u.line < SCREEN_START_LINE + SCREEN_HEIGHT
        drawn == visible /\ u.line_cycle < COLUMNS * 4
                 /\ u.line_cycle % 4 = 0
        column == u.line_cycle \div 4
        in_screen_col == column >= SCREEN_START_COLUMN
                         /\ column < SCREEN_START_COLUMN + SCREEN_WIDTH_BYTES
        screen_line == u.line - SCREEN_START_LINE
        screen_col == column - SCREEN_START_COLUMN
        display_addr == calculate_display_address(screen_line, screen_col)
        attr_addr == calculate_attr_address(screen_line, screen_col)
        g == IF ~drawn THEN u.group
             ELSE IF in_screen_line /\ in_screen_col
             THEN update_pixels_jit(u.group, u.line, column,
                                    <<display_addr, attr_addr>>,
                                    MemRead(u.ram, display_addr),
                                    MemRead(u.ram, attr_addr),
                                    TOP_BLANKING, VISIBLE_LINES, CRT_LINES,
                                    u.odd_field)
             ELSE update_pixels_jit(u.group, u.line, column, <<>>, 0,
                                    Shl(u.border_color, 3),
                                    TOP_BLANKING, VISIBLE_LINES, CRT_LINES,
                                    u.odd_field)
        p == CpuTick(u.pins, out)
        accesses == TransactAccesses07(p, z)
        tr == Transact(p, u.ram, u.border_color, rws)
        w == TransactWrite(p)
        changed == IF w.kind = "mem"
                   THEN MemRead(tr.ram, w.addr) # MemRead(u.ram, w.addr)
                   ELSE tr.border_color # u.border_color
        beam == BeamAdvance(u.line, u.line_cycle, u.flash_flipper)
    IN IF \E i \in DOMAIN accesses : accesses[i] \notin 0..(MEM_SIZE - 1)
       THEN [error |-> TRUE,
             u |-> [u EXCEPT !.pins = p,
                             !.current_column = IF drawn THEN column ELSE @,
                             !.group = g]]
       ELSE [error |-> FALSE,
             u |-> [line |-> beam.line,
                    line_cycle |-> beam.line_cycle,
                    current_column |-> IF drawn THEN column
                                       ELSE u.current_column,
                    flash_flipper |-> beam.flash_flipper,
                    border_color |-> tr.border_color,
                    odd_field |-> IF beam.toggle_field THEN ~u.odd_field
                                  ELSE u.odd_field,
                    flash_inverted |-> IF beam.toggle_flash
                                       THEN ~u.flash_inverted
                                       ELSE u.flash_inverted,
                    ram |-> tr.ram,
                    pins |-> UlaInterrupt(tr.pins, u.line, u.line_cycle + 1),
                    fields |-> IF beam.toggle_field THEN u.fields + 1
                               ELSE u.fields,
                    flash_toggles |-> IF beam.toggle_flash
                                      THEN u.flash_toggles + 1
                                      ELSE u.flash_toggles,
                    group |-> g,
                    landed |-> Landed(u.landed, w, changed, drawn, g)]]

\* Two systems, the optimized one and the earlier one, built and loaded
\* alike, enter run: ret is the earlier one.
PairStart ==
    /\ pc \in {"init", "loaded"}
    /\ pc' = "events"
    /\ quit' = FALSE
    /\ next_refresh_t_state' = current_t_state + T_STATES_PER_FRAME
    /\ ret' = [error |-> FALSE, u |-> UlaState]
    /\ UNCHANGED <<current_t_state, target_t_state, ulaVars, crtVars, rows, ram,
                   pins, z80, histVars, refreshes, down, arg>>

\* One iteration of the inner loops of both systems, the cores putting out
\* the same pins `out`.
PairTick(out) ==
    /\ pc = "chunk"
    /\ current_t_state < target_t_state
    /\ ~ret.error
    /\ \E u \in {UlaTick(UlaState, out, rows)} : UlaAssign(u)
    /\ ret' = UlaTick07(ret.u, out, rows, z80)
    /\ current_t_state' = current_t_state + 1
    /\ UNCHANGED <<pc, quit, target_t_state, rows, z80, down, arg, runVars>>

-----
(* The state after System.__init__.                                        *)

\* The registers after z80_init.
ResetRegisters ==
    [pc |-> 0, i |-> 0, r |-> 0, im |-> 0, iff1 |-> FALSE, iff2 |-> FALSE,
     af |-> 21845, bc |-> 21845, de |-> 21845, hl |-> 21845, ix |-> 21845,
     iy |-> 21845, sp |-> 21845, af_prime |-> 21845, bc_prime |-> 21845,
     de_prime |-> 21845, hl_prime |-> 21845]

SystemInit ==
    /\ quit = FALSE
    /\ current_t_state = 0
    /\ target_t_state = 0
    /\ line = 0
    /\ line_cycle = 0
    /\ current_column = 0
    /\ flash_flipper = FLASH_RATE
    /\ border_color = 0
    /\ odd_field = FALSE
    /\ flash_inverted = FALSE
    /\ rows = [r \in 0..7 |-> 255]
    /\ ram = [layers |-> <<>>, over |-> <<>>]
    /\ pins = NoPins
    /\ z80 = ResetRegisters
    /\ fields = 0
    /\ flash_toggles = 0
    /\ group = NoGroup
    /\ landed = NoLanded
    /\ down = {}
    /\ next_refresh_t_state = 0
    /\ refreshes = 0

Init ==
    /\ SystemInit
    /\ pc = "init"
    /\ arg = <<0, 0>>
    /\ ret = <<>>

-----------------------------------------------------------------------------
(* Specification of System.run: a snapshot may be loaded, then the loop    *)
(* polls events and runs chunks of ticks in which the CPU idles or writes  *)
(* the border port.                                                        *)

\* A well-formed 49179-byte snapshot: I = 63, IFF2 set, IM 1, border 5.
SnaFileA ==
    [size |-> 27 + SNA_RAM_SIZE, seed |-> 1,
     head |-> <<63, 1, 2, 3, 4, 5, 6, 7, 8, 9, 10, 11, 12, 13, 14, 15, 16, 17,
                18, 4, 77, 19, 20, 21, 22, 1, 5>>]

RunSnaFiles == {SnaFileA}
RunScancodes == {SDL_SCANCODE.Z, SDL_SCANCODE.ESCAPE}
RunCpuOutputs == {CpuIdle, CpuIoWrite(254, 5)}

Next ==
    \/ \E f \in RunSnaFiles : LoadSna(f)
    \/ RunStart
    \/ EventQuit
    \/ \E sc \in RunScancodes : EventKeyDown(sc)
    \/ \E sc \in RunScancodes : EventKeyUp(sc)
    \/ ChunkStart
    \/ (current_t_state < MaxTStates /\ \E out \in RunCpuOutputs : Tick(out))
    \/ ChunkEnd

Spec == Init /\ [][Next]_vars

-----------------------------------------------------------------------------------------------------------------------------------------------------
(* Specification of the fields: a fresh system runs for two fields; the    *)
(* CPU idles, or acknowledges the interrupt while INT is asserted.         *)

NextField ==
    \/ RunStart
    \/ ChunkStart
    \/ (current_t_state < MaxFieldTStates /\ Tick(CpuIdle))
    \/ (current_t_state < MaxFieldTStates /\ pins.int /\ Tick(CpuIntAck))
    \/ ChunkEnd

SpecField == Init /\ [][NextField]_vars

-----------------------------------------------------------------------------
(* Specification of the flash: a fresh system runs chunk after chunk, the  *)
(* CPU idle, for 33 fields.                                                *)

NextFlash ==
    \/ RunStart
    \/ ChunkStart
    \/ (fields < MaxFlashFields /\ RunChunk(CpuIdle))
    \/ ChunkEnd

SpecFlash == Init /\ [][NextFlash]_vars

-----
(* Specification of the bus: a fresh system runs and the CPU reads and     *)
(* writes memory.                                                          *)

BusAddresses == {0, 256, 16383, 16384, 65535}
BusData == {170, 85}
BusCpuOutputs ==
    {CpuIdle}
    \cup {CpuMemRead(a) : a \in BusAddresses}
    \cup {CpuMemWrite(a, d) : a \in BusAddresses, d \in BusData}

NextBus ==
    \/ RunStart
    \/ ChunkStart
    \/ (current_t_state < MaxBusTStates /\ \E out \in BusCpuOutputs : Tick(out))

SpecBus == Init /\ [][NextBus]_vars

-----------------------------------------------------------------------------
(* Specification of the address arithmetic: every screen cell.             *)

ScreenCells == (0..(SCREEN_HEIGHT - 1)) \X (0..(SCREEN_WIDTH_BYTES - 1))

InitAddr ==
    /\ SystemInit
    /\ pc = "calc"
    /\ arg \in ScreenCells
    /\ ret = <<>>

NextAddr == CalcAddress

SpecAddr == InitAddr /\ [][NextAddr]_vars

-----------------------------------------------------------------------------
(* Specification of the keyboard: keys go down and up before a chunk, in   *)
(* which the CPU reads a port.                                             *)

KbdScancodes == DOMAIN key_map \cup {SDL_SCANCODE.F1}
\* High bytes of the ports read: no row, one row, two rows, every row
\* selected.
KbdHighBytes ==
    {255, 0} \cup {255 - 2^r : r \in 0..7}
             \cup {255 - 2^p[1] - 2^p[2] :
                       p \in {p \in (0..7) \X (0..7) : p[1] < p[2]}}
\* The ports 0x..FE with those high bytes, two more even ports (0xFE00,
\* 0x7F12) and one odd port (0xFEFF), which is not the ULA's.
KbdPorts == {h * 256 + 254 : h \in KbdHighBytes} \cup {65024, 32530, 65279}

NextKbd ==
    \/ RunStart
    \/ \E sc \in KbdScancodes :
          /\ pc = "events"
          /\ IF sc \in DOMAIN key_map
             THEN Cardinality(down \cup {key_map[sc]}) <= MaxPressed
             ELSE TRUE
          /\ EventKeyDown(sc)
    \/ \E sc \in KbdScancodes : EventKeyUp(sc)
    \/ ChunkStart
    \/ (current_t_state < 1 /\ \E port \in KbdPorts : Tick(CpuIoRead(port)))

SpecKbd == Init /\ [][NextKbd]_vars

-----------------------------------------------------------------------------
(* Specification of the border: the border colour is set by a call of      *)
(* ULA.set_border_color, by a snapshot, by key events and by the IO writes *)
(* of the CPU.                                                             *)

\* A well-formed snapshot whose border byte is 0xFF and whose IFF2 bit is 0.
SnaFileB ==
    [size |-> 27 + SNA_RAM_SIZE, seed |-> 2,
     head |-> <<255, 52, 18, 120, 86, 188, 154, 240, 222, 205, 171, 1, 239,
                35, 69, 103, 137, 254, 202, 251, 128, 85, 170, 254, 255, 2,
                255>>]

\* ULA.set_border_color called on the system before it runs.
SetBorderColorCall(color) ==
    /\ pc = "init"
    /\ border_color' = SetBorderColor(color)
    /\ UNCHANGED <<pc, quit, current_t_state, target_t_state, line, line_cycle,
                   current_column, flash_flipper, crtVars, rows, ram, pins, z80,
                   histVars, runVars, down, calcVars>>

NextIo ==
    \/ \E c \in {0, 8, 255} : SetBorderColorCall(c)
    \/ \E f \in {SnaFileA, SnaFileB} : LoadSna(f)
    \/ RunStart
    \/ \E sc \in {SDL_SCANCODE.K0, SDL_SCANCODE.K3, SDL_SCANCODE.K7} :
          EventKeyDown(sc)
    \/ ChunkStart
    \/ (current_t_state < MaxIoTStates
        /\ \E p \in {254, 255, 0, 1, 65278, 32530, 32531},
              v \in {0, 5, 7, 8, 13, 248, 255} : Tick(CpuIoWrite(p, v)))

SpecIo == Init /\ [][NextIo]_vars

-----------------------------------------------------------------------------
(* Specification of the device bus: devices are registered on an empty     *)
(* IODeviceBus, a key of the system's keyboard may be pressed, and the bus *)
(* is read or written once.  arg is the list of the bus's devices, ret     *)
(* what the call returned and which devices it called.                     *)

\* The devices registered: the system's ULA, a Keyboard of its own on which
\* the key A is down, and a plain IODevice, under several masks.
BusDevices ==
    {[mask |-> m, device |-> "ULA"] : m \in {1, 0}}
    \cup {[mask |-> m, device |-> "Keyboard",
           rows |-> KeyPress([r \in 0..7 |-> 255], SDL_SCANCODE.A)] :
             m \in {1, 2, 257}}
    \cup {[mask |-> m, device |-> "IODevice"] : m \in {0, 2, 257}}

InitDeviceBus ==
    /\ SystemInit
    /\ pc = "bus"
    /\ arg = <<>>
    /\ ret = <<>>

\* IODeviceBus.add_device
AddDevice(mask, device) ==
    /\ pc = "bus"
    /\ arg' = Append(arg, [device EXCEPT !.mask = mask])
    /\ UNCHANGED <<pc, quit, current_t_state, target_t_state, ulaVars, crtVars,
                   rows, ram, pins, z80, histVars, runVars, down, ret>>

\* Keyboard.press on the keyboard of the system's ULA.
KeyboardPressCall(scancode) ==
    /\ pc = "bus"
    /\ rows' = KeyPress(rows, scancode)
    /\ down' = IF scancode \in DOMAIN key_map
               THEN down \cup {key_map[scancode]} ELSE down
    /\ UNCHANGED <<pc, quit, current_t_state, target_t_state, ulaVars, crtVars,
                   ram, pins, z80, histVars, runVars, calcVars>>

\* IODeviceBus.read(addr)
BusReadCall(addr) ==
    /\ pc = "bus"
    /\ pc' = "busread"
    /\ ret' = [addr |-> addr,
               value |-> IOBusRead(arg, rows, addr),
               calls |-> IOBusCalls(arg, addr)]
    /\ UNCHANGED <<quit, current_t_state, target_t_state, ulaVars, crtVars,
                   rows, ram, pins, z80, histVars, runVars, down, arg>>

\* IODeviceBus.write(addr, value)
BusWriteCall(addr, value) ==
    /\ pc = "bus"
    /\ pc' = "buswrite"
    /\ border_color' = IOBusWrite(arg, border_color, addr, value)
    /\ ret' = [addr |-> addr, data |-> value, before |-> border_color,
               calls |-> IOBusCalls(arg, addr)]
    /\ UNCHANGED <<quit, current_t_state, target_t_state, line, line_cycle,
                   current_column, flash_flipper, crtVars, rows, ram, pins, z80,
                   histVars, runVars, down, arg>>

NextDeviceBus ==
    \/ \E d \in BusDevices : Len(arg) < MaxDevices /\ AddDevice(d.mask, d)
    \/ KeyboardPressCall(SDL_SCANCODE.Z)
    \/ \E a \in {254, 253, 252, 508, 255} : BusReadCall(a)
    \/ \E a \in {254, 253, 252, 508, 255}, v \in {13, 255} : BusWriteCall(a, v)

SpecDeviceBus == InitDeviceBus /\ [][NextDeviceBus]_vars

-----------------------------------------------------------------------------
(* Specification of the pins: the key Z may go down, then the core puts    *)
(* out every combination of MREQ, IORQ, RD, WR and M1, with the byte 0xAA  *)
(* on the data bus, on a ROM address, the first pixel and attribute        *)
(* addresses and two ports.                                                *)

PinCombos ==
    {[NoPins EXCEPT !.mreq = c[1], !.iorq = c[2], !.rd = c[3], !.wr = c[4],
                    !.m1 = c[5], !.addr = a, !.data = 170] :
        c \in BOOLEAN \X BOOLEAN \X BOOLEAN \X BOOLEAN \X BOOLEAN,
        a \in {0, DISPLAY_BASE, ATTR_BASE, 65278, 65279}}

NextPins ==
    \/ RunStart
    \/ EventKeyDown(SDL_SCANCODE.Z)
    \/ ChunkStart
    \/ (current_t_state < MaxPinTStates /\ \E out \in PinCombos : Tick(out))

SpecPins == Init /\ [][NextPins]_vars

-----------------------------------------------------------------------------
(* Specification of the pixel samples: a fresh system runs its first chunk *)
(* with the CPU idle, which brings the beam to line 104, and then T-state  *)
(* by T-state; the CPU idles, writes the display byte or the attribute     *)
(* byte of the screen cell (40, 2), or writes the border port.             *)

NextSample ==
    \/ RunStart
    \/ ChunkStart
    \/ (current_t_state < CHUNK_SIZE /\ RunChunk(CpuIdle))
    \/ (/\ current_t_state >= CHUNK_SIZE
        /\ current_t_state < CHUNK_SIZE + MaxSampleTStates
        /\ \E out \in {CpuIdle,
                       CpuMemWrite(calculate_display_address(40, 2), 170),
                       CpuMemWrite(calculate_attr_address(40, 2), 71),
                       CpuIoWrite(254, 5)} : Tick(out))
    \/ ChunkEnd

SpecSample == Init /\ [][NextSample]_vars

-----------------------------------------------------------------------------
(* Specification of load_sna: a snapshot file is built from register       *)
(* values after the SNA layout and cut or padded to a size, then loaded    *)
(* into a fresh system.  arg is what the file is built from.               *)

\* The k-th choice of register values, border byte and payload, in a file
\* of sz bytes: all zeros, all ones, then values that differ from register
\* to register.
SnaInput(k, sz) ==
    LET v16(j) == IF k = 0 THEN 0 ELSE IF k = 1 THEN 65535
                  ELSE (k * 4099 + j * 257) % 65536
        v8(j) == IF k = 0 THEN 0 ELSE IF k = 1 THEN 255
                 ELSE (k * 37 + j * 3) % 256
    IN [i |-> v8(1), hl_prime |-> v16(1), de_prime |-> v16(2),
        bc_prime |-> v16(3), af_prime |-> v16(4), hl |-> v16(5),
        de |-> v16(6), bc |-> v16(7), iy |-> v16(8), ix |-> v16(9),
        interrupt |-> v8(2), r |-> v8(3), af |-> v16(10), sp |-> v16(11),
        im |-> v8(4), border |-> v8(5), seed |-> k, size |-> sz]

\* The snapshot file of the SNA layout for the values a: the header byte
\* by byte, 16-bit values low byte first, then the payload.
SnaBuild(a) ==
    LET lo(v) == v % 256
        hi(v) == v \div 256
    IN [size |-> a.size, seed |-> a.seed,
        head |-> <<a.i,
                   lo(a.hl_prime), hi(a.hl_prime),
                   lo(a.de_prime), hi(a.de_prime),
                   lo(a.bc_prime), hi(a.bc_prime),
                   lo(a.af_prime), hi(a.af_prime),
                   lo(a.hl), hi(a.hl), lo(a.de), hi(a.de),
                   lo(a.bc), hi(a.bc), lo(a.iy), hi(a.iy),
                   lo(a.ix), hi(a.ix),
                   a.interrupt, a.r,
                   lo(a.af), hi(a.af), lo(a.sp), hi(a.sp),
                   a.im, a.border>>]

InitSna ==
    /\ SystemInit
    /\ pc = "init"
    /\ arg \in {SnaInput(k, sz) :
                   k \in 0..(MaxSnaInputs - 1),
                   sz \in {0, 1, 20, 26, 27, 28, 27 + SNA_RAM_SIZE - 1,
                           27 + SNA_RAM_SIZE, 27 + SNA_RAM_SIZE + 1}}
    /\ ret = <<>>

NextSna == LoadSna(SnaBuild(arg))

SpecSna == InitSna /\ [][NextSna]_vars

-----------------------------------------------------------------------------
(* Specification of load_from_file: bytes are written to the memory of a   *)
(* fresh system and files of several sizes are loaded into the ROM, the    *)
(* screen and the top of memory, until a load fails.                       *)

NextLoad ==
    \/ \E a \in {16383, 23295, 23296} : MemoryWriteCall(a, 1)
    \/ /\ Len(ram.layers) < MaxLoads
       /\ \E sz \in {0, 6911, 6912, 16383, 16384, 20000},
             r \in {<<0, 16384>>, <<16384, 6912>>, <<49152, 16384>>} :
             LoadFromFileCall([size |-> sz, seed |-> 3, head |-> <<>>],
                              r[1], r[2])

SpecLoad == Init /\ [][NextLoad]_vars

-----------------------------------------------------------------------------
(* Specification of main: every list of up to MaxArgs file arguments among *)
(* a ROM, two snapshots, a snapshot one byte too short, two screen files,  *)
(* a screen file one byte too short and a file of another suffix.          *)

InitMain ==
    /\ SystemInit
    /\ pc = "main"
    /\ \E n \in 0..MaxArgs :
          arg \in [1..n ->
                     {[ext |-> "rom",
                       file |-> [size |-> 16384, seed |-> 11, head |-> <<>>]],
                      [ext |-> "sna", file |-> SnaFileA],
                      [ext |-> "sna", file |-> SnaFileB],
                      [ext |-> "sna",
                       file |-> [size |-> 27 + SNA_RAM_SIZE - 1, seed |-> 3,
                                 head |-> <<7, 1, 2>>]],
                      [ext |-> "scr",
                       file |-> [size |-> 6912, seed |-> 21, head |-> <<>>]],
                      [ext |-> "scr",
                       file |-> [size |-> 6912, seed |-> 22, head |-> <<>>]],
                      [ext |-> "scr",
                       file |-> [size |-> 6911, seed |-> 23, head |-> <<>>]],
                      [ext |-> "txt",
                       file |-> [size |-> 100, seed |-> 24, head |-> <<>>]]}]
    /\ ret = <<>>

NextMain ==
    \/ MainLoadRom
    \/ MainLoadSna
    \/ MainLoadScr
    \/ MainRun

SpecMain == InitMain /\ [][NextMain]_vars

-----------------------------------------------------------------------------
(* Specification of the memory accesses of the earlier emulator: a         *)
(* snapshot may be loaded (one has I = 0xFF, interrupt mode 2 and the      *)
(* interrupts enabled), then the loop runs T-state by T-state through the  *)
(* interrupt of the first line; the CPU idles, reads or writes the first   *)
(* or the last byte of the memory, or acknowledges the interrupt.          *)

NextAccess ==
    \/ \E f \in {SnaFileA,
                 [size |-> 27 + SNA_RAM_SIZE, seed |-> 4,
                  head |-> <<255, 1, 2, 3, 4, 5, 6, 7, 8, 9, 10, 11, 12, 13,
                             14, 15, 16, 17, 18, 4, 77, 19, 20, 21, 22, 2,
                             5>>]} : LoadSna(f)
    \/ RunStart
    \/ ChunkStart
    \/ /\ current_t_state < MaxAccessTStates
       /\ \E out \in {CpuIdle, CpuMemRead(0), CpuMemRead(65535),
                      CpuMemWrite(65535, 255)} : Tick07(out)
    \/ /\ current_t_state < MaxAccessTStates
       /\ pins.int
       /\ z80.iff1
       /\ Tick07(CpuIntAck)

SpecAccess == Init /\ [][NextAccess]_vars

-----------------------------------------------------------------------------
(* Specification of the end of the loop: a fresh system runs; between the  *)
(* chunks a quit event, ESC or the keys Z and X may be polled.  The first  *)
(* MaxQuitTicks iterations of the inner loop of a chunk are taken one by   *)
(* one, the others in one step.  The event queue is finite at every poll   *)
(* and the inner loop is an ordinary loop, so every step of the loop that  *)
(* stays possible is taken.  Chunks are begun without a quit only while    *)
(* fewer than MaxQuitChunks are done.                                      *)

QuitChunkStart ==
    /\ (quit \/ current_t_state < MaxQuitChunks * CHUNK_SIZE)
    /\ ChunkStart

NextQuit ==
    \/ RunStart
    \/ EventQuit
    \/ \E sc \in {SDL_SCANCODE.Z, SDL_SCANCODE.X, SDL_SCANCODE.ESCAPE} :
          EventKeyDown(sc)
    \/ \E sc \in {SDL_SCANCODE.Z, SDL_SCANCODE.X} : EventKeyUp(sc)
    \/ QuitChunkStart
    \/ (current_t_state % CHUNK_SIZE < MaxQuitTicks /\ Tick(CpuIdle))
    \/ (current_t_state % CHUNK_SIZE >= MaxQuitTicks /\ RunChunk(CpuIdle))
    \/ ChunkEnd

\* A step of the inner loop: the steps Tick and RunChunk of NextQuit are
\* such steps, and one of the two is possible whenever the condition of the
\* loop holds.
QuitInnerLoop ==
    /\ pc = "chunk"
    /\ current_t_state < target_t_state
    /\ current_t_state' \in (current_t_state + 1)..target_t_state

SpecQuit ==
    /\ Init
    /\ [][NextQuit]_vars
    /\ WF_vars(QuitChunkStart)
    /\ WF_current_t_state(QuitInnerLoop)
    /\ WF_vars(ChunkEnd)

-----------------------------------------------------------------------------
(* Specification of two runs: both start from the fresh system and poll    *)
(* the same events (the key 2 pressed or released, a quit) before each     *)
(* chunk; the CPU idles in both.  The clock of the first run reads the     *)
(* same instant every time, the clock of the second any of three instants. *)

NextTwin ==
    \/ TwinStart
    \/ \E ev \in {[type |-> "SDL_KEYDOWN", scancode |-> SDL_SCANCODE.K2],
                  [type |-> "SDL_KEYUP", scancode |-> SDL_SCANCODE.K2],
                  [type |-> "SDL_QUIT", scancode |-> 0]} : TwinEvent(ev)
    \/ ((quit \/ current_t_state < MaxTwinChunks * CHUNK_SIZE)
        /\ ChunkStart)
    \/ TwinChunk(CpuIdle)
    \/ \E tb \in {0, 600, 1200} : TwinFps(0, tb)

SpecTwin == Init /\ [][NextTwin]_vars

-----------------------------------------------------------------------------
(* Specification of the pixels: one call of screen_update_full_jit for a   *)
(* border cell at the top left, the first screen cell or the border cell   *)
(* at the bottom right, in either field and flash phase, for every         *)
(* attribute byte, two display bytes and two pairs of old pixels.          *)

InitPixel ==
    /\ SystemInit
    /\ pc = "calc"
    /\ arg \in [line : {16, 64, 307}, column : {0, 6, 43},
                odd_field : BOOLEAN, flash_inverted : BOOLEAN,
                border_color : {5}, display_byte : {165, 90},
                attr_byte : 0..255,
                main : {<<3, 3, 3, 3>>, <<255, 128, 66, 7>>},
                bleed : {<<255, 255, 255, 255>>}]
    /\ arg.line = 16 <=> arg.column = 0
    /\ arg.line = 64 <=> arg.column = 6
    /\ arg.main = <<3, 3, 3, 3>> <=> arg.display_byte = 165
    /\ ret = <<>>

SpecPixel == InitPixel /\ [][ScreenUpdate]_vars

-----------------------------------------------------------------------------
(* Specification of the field and flash state: a snapshot may be loaded,   *)
(* then the loop runs for MaxFrameFields fields.  The last MaxFrameTicks   *)
(* T-states of every field are taken one by one, the others of a chunk in  *)
(* one step with the CPU idle.  In the field at whose end the flash        *)
(* toggles, the key Z may go down or up before a chunk and the CPU may     *)
(* write the border port or read the keyboard port in the last T-states.   *)

NextFrame ==
    \/ LoadSna(SnaFileA)
    \/ RunStart
    \/ (flash_flipper = 1 /\ EventKeyDown(SDL_SCANCODE.Z))
    \/ (flash_flipper = 1 /\ EventKeyUp(SDL_SCANCODE.Z))
    \/ (fields < MaxFrameFields /\ ChunkStart)
    \/ /\ pc = "chunk"
       /\ current_t_state < target_t_state
       /\ line * T_STATES_PER_LINE + line_cycle
             < T_STATES_PER_FRAME - MaxFrameTicks
       /\ \E k \in {IF target_t_state - current_t_state
                       < T_STATES_PER_FRAME - MaxFrameTicks
                         - (line * T_STATES_PER_LINE + line_cycle)
                    THEN target_t_state - current_t_state
                    ELSE T_STATES_PER_FRAME - MaxFrameTicks
                         - (line * T_STATES_PER_LINE + line_cycle)} :
             /\ \E u \in {RunTicks(UlaState, CpuIdle, rows, k)} : UlaAssign(u)
             /\ current_t_state' = current_t_state + k
       /\ UNCHANGED <<pc, quit, target_t_state, rows, z80, down, arg, ret,
                      runVars>>
    \/ /\ line * T_STATES_PER_LINE + line_cycle
             >= T_STATES_PER_FRAME - MaxFrameTicks
       /\ \E out \in {CpuIdle} \cup (IF flash_flipper = 1
                                     THEN {CpuIoWrite(254, 5),
                                           CpuIoRead(65278)}
                                     ELSE {}) : Tick(out)
    \/ ChunkEnd

SpecFrame == Init /\ [][NextFrame]_vars


-----------------------------------------------------------------------------
(* Specification of the scan of a field: a fresh system runs for           *)
(* MaxScanFields fields, the T-states of eight lines a step.  ret is the   *)
(* history of the field being scanned: the reads the pixel update made of  *)
(* every address of the display file and the attributes, the writes of     *)
(* every group of eight pixels of the framebuffer as main pixels and as    *)
(* bleed pixels (the group i holds the pixels i % COLUMNS * 8 .. + 7 of    *)
(* the row i \div COLUMNS), and stray, which tells that an address or a    *)
(* pixel outside these was touched.  Counts are kept by blocks (the 32     *)
(* addresses of a character row, the COLUMNS groups of a framebuffer row): *)
(* full[b] is the count every item of the block b has reached, part[x]     *)
(* what the item x has beyond it.  In the T-states of a step the CPU idles *)
(* or writes a byte of the display file.                                   *)

InitScan ==
    /\ SystemInit
    /\ pc = "init"
    /\ arg = <<0, 0>>
    /\ ret = [reads |-> [full |-> [b \in 0..(192 + 24 - 1) |-> 0],
                         part |-> <<>>],
              main |-> [full |-> [b \in 0..(CRT_LINES - 1) |-> 0],
                        part |-> <<>>],
              bleed |-> [full |-> [b \in 0..(CRT_LINES - 1) |-> 0],
                         part |-> <<>>],
              stray |-> FALSE]

\* The T-states of eight lines of the inner loop of System.run, the core
\* putting out the pins `out` in every one; the history starts anew with
\* the first line of a field.
ScanLines(out) ==
    /\ pc = "chunk"
    /\ current_t_state < target_t_state
    /\ LET Bump(c, x, b, items) ==
               LET p == [y \in DOMAIN c.part \cup {x} |->
                            IF y # x THEN c.part[y]
                            ELSE IF x \in DOMAIN c.part THEN c.part[x] + 1
                            ELSE 1]
               IN IF items \subseteq DOMAIN p
                  THEN [full |-> [c.full EXCEPT ![b] = @ + 1],
                        part |-> [y \in {z \in DOMAIN p :
                                            z \notin items \/ p[z] > 1} |->
                                     IF y \in items THEN p[y] - 1 ELSE p[y]]]
                  ELSE [full |-> c.full, part |-> p]
           Read(h, a) ==
               IF a >= DISPLAY_BASE /\ a < ATTR_BASE + 24 * 32
               THEN LET b == (a - DISPLAY_BASE) \div 32
                    IN [h EXCEPT !.reads =
                           Bump(@, a, b, (DISPLAY_BASE + b * 32)
                                         ..(DISPLAY_BASE + b * 32 + 31))]
               ELSE [h EXCEPT !.stray = TRUE]
           Reads(h, g) ==
               IF g.reads = <<>> THEN h
               ELSE Read(Read(h, g.reads[1]), g.reads[2])
           InFrame(g, y) ==
               /\ g.offset_x % 8 = 0
               /\ g.offset_x \div 8 \in 0..(COLUMNS - 1)
               /\ y \in 0..(CRT_LINES - 1)
           Main(h, g) ==
               IF InFrame(g, g.offset_y)
               THEN [h EXCEPT !.main =
                       Bump(@, g.offset_y * COLUMNS + g.offset_x \div 8,
                            g.offset_y,
                            (g.offset_y * COLUMNS)
                            ..(g.offset_y * COLUMNS + COLUMNS - 1))]
               ELSE [h EXCEPT !.stray = TRUE]
           Bleed(h, g) ==
               IF InFrame(g, g.bleed_y)
               THEN [h EXCEPT !.bleed =
                       Bump(@, g.bleed_y * COLUMNS + g.offset_x \div 8,
                            g.bleed_y,
                            (g.bleed_y * COLUMNS)
                            ..(g.bleed_y * COLUMNS + COLUMNS - 1))]
               ELSE [h EXCEPT !.stray = TRUE]
           Step(s) ==
               CHOOSE t \in {[u |-> v,
                              h |-> IF v.group.n = s.u.group.n THEN s.h
                                    ELSE Bleed(Main(Reads(s.h, v.group),
                                                    v.group), v.group)] :
                                v \in {UlaTick(s.u, out, rows)}} : TRUE
           RECURSIVE Ticks(_, _)
           Ticks(s, k) ==
               IF k = 0 THEN s
               ELSE IF k = 1 THEN Step(s)
               ELSE CHOOSE r \in {Ticks(t, k - (k \div 2)) :
                                     t \in {Ticks(s, k \div 2)}} : TRUE
           fresh == [reads |-> [full |-> [b \in DOMAIN ret.reads.full |-> 0],
                                part |-> <<>>],
                     main |-> [full |-> [b \in DOMAIN ret.main.full |-> 0],
                               part |-> <<>>],
                     bleed |-> [full |-> [b \in DOMAIN ret.bleed.full |-> 0],
                                part |-> <<>>],
                     stray |-> FALSE]
       IN \E s \in {Ticks([u |-> UlaState,
                           h |-> IF line = 0 /\ line_cycle = 0 THEN fresh
                                 ELSE ret],
                          8 * T_STATES_PER_LINE)} :
             /\ UlaAssign(s.u)
             /\ ret' = s.h
    /\ current_t_state' = current_t_state + 8 * T_STATES_PER_LINE
    /\ UNCHANGED <<pc, quit, target_t_state, rows, z80, down, arg, runVars>>

NextScan ==
    \/ RunStart
    \/ (fields < MaxScanFields /\ ChunkStart)
    \/ ScanLines(CpuIdle)
    \/ ScanLines(CpuMemWrite(DISPLAY_BASE + 33, 60))
    \/ ChunkEnd

SpecScan == InitScan /\ [][NextScan]_vars

-----------------------------------------------------------------------------
(* Specification of the pixel update in the blanking interval:             *)
(* screen_update_full_jit is called, with the arguments of ULA.tick, for   *)
(* a line above the picture, the last line of the picture and the lines    *)
(* below it, whatever ULA.tick tests before the call.                      *)

InitBlank ==
    /\ SystemInit
    /\ pc = "calc"
    /\ arg \in [line : {0, TOP_BLANKING - 1,
                        TOP_BLANKING + VISIBLE_LINES - 1,
                        TOP_BLANKING + VISIBLE_LINES, FIELD_LINES - 1},
                column : {0, COLUMNS - 1},
                odd_field : BOOLEAN, flash_inverted : BOOLEAN,
                border_color : {5}, display_byte : {165},
                attr_byte : {7, 71, 56},
                main : {<<3, 3, 3, 3>>},
                bleed : {<<255, 255, 255, 255>>}]
    /\ ret = <<>>

SpecBlank == InitBlank /\ [][ScreenUpdate]_vars

-----------------------------------------------------------------------------
(* Specification of the two emulators side by side: both are loaded with   *)
(* the same snapshot (I = 0xFF, interrupt mode 2, interrupts enabled) or   *)
(* with none, then run T-state by T-state for MaxPairTStates T-states on   *)
(* the same pins.  The CPU idles, or acknowledges the interrupt while INT  *)
(* is asserted; in the last MaxPairBusy T-states of a chunk it may write   *)
(* an attribute byte of the line drawn next or the border port, or read    *)
(* the keyboard port.  The key Z may go down or up after the first chunk.  *)

NextPair ==
    \/ LoadSna([size |-> 27 + SNA_RAM_SIZE, seed |-> 4,
                head |-> <<255, 1, 2, 3, 4, 5, 6, 7, 8, 9, 10, 11, 12, 13,
                           14, 15, 16, 17, 18, 4, 77, 19, 20, 21, 22, 2,
                           5>>])
    \/ PairStart
    \/ (current_t_state > 0 /\ EventKeyDown(SDL_SCANCODE.Z))
    \/ (current_t_state > 0 /\ EventKeyUp(SDL_SCANCODE.Z))
    \/ ChunkStart
    \/ (current_t_state < MaxPairTStates /\ PairTick(CpuIdle))
    \/ /\ current_t_state < MaxPairTStates
       /\ current_t_state % CHUNK_SIZE >= CHUNK_SIZE - MaxPairBusy
       /\ \E out \in {CpuMemWrite(ATTR_BASE + 5 * 32, 199),
                      CpuIoWrite(254, 5), CpuIoRead(65278)} : PairTick(out)
    \/ /\ current_t_state < MaxPairTStates
       /\ pins.int
       /\ z80.iff1
       /\ PairTick(CpuIntAck)
    \/ ChunkEnd

SpecPair == Init /\ [][NextPair]_vars
-----------------------------------------------------------------------------
(* Specification of the key events: on a fresh System up to MaxKeyEvents   *)
(* presses and releases of the two shift keys, Z, A, Escape and F1 (which  *)
(* has no mapping) are polled in any order, ret keeping the sequence of    *)
(* the events, then the core reads the port of row 0 (0xFEFE), of row 1    *)
(* (0xFDFE) or of both rows (0xFCFE).                                      *)

NextKeys ==
    \/ RunStart
    \/ \E sc \in {SDL_SCANCODE.LSHIFT, SDL_SCANCODE.RSHIFT, SDL_SCANCODE.Z,
                  SDL_SCANCODE.A, SDL_SCANCODE.ESCAPE, SDL_SCANCODE.F1} :
          KeyEvent("SDL_KEYDOWN", sc)
    \/ \E sc \in {SDL_SCANCODE.LSHIFT, SDL_SCANCODE.RSHIFT, SDL_SCANCODE.Z,
                  SDL_SCANCODE.A, SDL_SCANCODE.ESCAPE, SDL_SCANCODE.F1} :
          KeyEvent("SDL_KEYUP", sc)
    \/ ChunkStart
    \/ /\ current_t_state < 1
       /\ \E port \in {65278, 65022, 64766} : Tick(CpuIoRead(port))

SpecKeys == Init /\ [][NextKeys]_vars

-----------------------------------------------------------------------------
(* Claims.                                                                 *)

\* C1: a fresh ULA is back at (line, line_cycle) = (0, 0) after exactly
\* 69888 ticks and not before, and odd_field has then been toggled exactly
\* once.
FrameLength ==
    /\ (current_t_state >= 1 /\ current_t_state < T_STATES_PER_FRAME)
          => /\ <<line, line_cycle>> # <<0, 0>>
             /\ fields = 0
             /\ odd_field = FALSE
    /\ current_t_state = T_STATES_PER_FRAME
          => /\ <<line, line_cycle>> = <<0, 0>>
             /\ fields = 1
             /\ odd_field = TRUE

FrameLengthWitness ==
    /\ current_t_state = T_STATES_PER_FRAME
    /\ <<line, line_cycle>> = <<0, 0>>
    /\ odd_field = TRUE

\* C2: at every tick boundary of System.run the tick count modulo 69888 is
\* line * 224 + line_cycle (delta = 0 for a fresh system), whatever IO
\* writes, key events and snapshot loads have happened.
BeamPhase ==
    current_t_state % T_STATES_PER_FRAME = line * T_STATES_PER_LINE + line_cycle

BeamPhaseWitness ==
    /\ current_t_state > T_STATES_PER_FRAME + T_STATES_PER_LINE
    /\ line_cycle > 0
    /\ border_color = 5
    /\ pins.iorq /\ pins.wr
    /\ z80.pc = SNA_PC
    /\ down # {}

\* C3: line and line_cycle stay in range; every tick adds one to line_cycle
\* modulo 224, and line moves, by one modulo 312, exactly on the ticks on
\* which line_cycle wraps to 0.
BeamStepRule ==
    current_t_state' # current_t_state =>
        /\ line_cycle' = (line_cycle + 1) % T_STATES_PER_LINE
        /\ line' = IF line_cycle' = 0 THEN (line + 1) % FIELD_LINES ELSE line

BeamRange ==
    /\ line \in 0..311
    /\ line_cycle \in 0..223

BeamCounters == []BeamRange /\ [][BeamStepRule]_vars

BeamCountersWitness ==
    /\ current_t_state > T_STATES_PER_FRAME
    /\ line = 1
    /\ line_cycle = 0

\* C4: INT is asserted exactly while line = 0 and 24 <= line_cycle < 56:
\* from tick 24 to tick 56 of the first field, and once, for 32 T-states, in
\* every later field.
IntWindow ==
    /\ pins.int <=> (line = 0 /\ line_cycle >= 24 /\ line_cycle < 56)
    /\ pins.int <=> (current_t_state % T_STATES_PER_FRAME >= 24
                      /\ current_t_state % T_STATES_PER_FRAME < 56)

IntWindowWitness ==
    /\ pins.int
    /\ pins.m1
    /\ fields = 2
    /\ line_cycle = 55

\* C5: flash_inverted is toggled on the 16th, 32nd, ... field boundary and
\* at no other time.
FlashCount ==
    /\ flash_toggles = fields \div 16
    /\ flash_inverted <=> (flash_toggles % 2 = 1)

FlashStepRule ==
    flash_inverted' # flash_inverted =>
        /\ fields' = fields + 1
        /\ fields' % 16 = 0

FlashPeriod == []FlashCount /\ [][FlashStepRule]_vars

FlashPeriodWitness ==
    /\ fields = 32
    /\ flash_toggles = 2
    /\ ~flash_inverted

\* C6: a Memory.write to an address in [0x0000, 0x4000) does not change
\* what Memory.read of that address returns (ROM write protection).
RomWriteProtected ==
    [][(pins'.mreq /\ ~pins'.rd /\ pins'.wr /\ pins'.addr < 16384
        /\ current_t_state' = current_t_state + 1)
          => MemRead(ram', pins'.addr) = MemRead(ram, pins'.addr)]_vars

\* C7: the display address is a bijection from the cells (line, col),
\* 0 <= line <= 191, 0 <= col <= 31, onto [0x4000, 0x5800), and the
\* attribute address of every cell lies in [0x5800, 0x5B00).
DisplayImage ==
    {calculate_display_address(c[1], c[2]) : c \in ScreenCells}

\* The cell whose display byte is at address a, read off the bits of a.
DisplayCell(a) ==
    <<((a \div 2048) % 4) * 64 + ((a \div 32) % 8) * 8 + ((a \div 256) % 8),
      a % 32>>

DisplayBijection ==
    /\ pc = "calcdone" =>
          /\ ret[1] \in 16384..22527
          /\ ret[2] \in 22528..23295
          /\ DisplayCell(ret[1]) = arg
    /\ DisplayImage = 16384..22527
    /\ Cardinality(DisplayImage) = Cardinality(ScreenCells)

DisplayBijectionWitness ==
    /\ pc = "calcdone"
    /\ arg = <<100, 17>>
    /\ ret[1] = 19601

\* C8: display_address(0,0) = 0x4000, (1,0) = 0x4100, (8,0) = 0x4020,
\* (64,0) = 0x4800, (191,31) = 0x57FF; attribute_address(0,0) = 0x5800,
\* (191,31) = 0x5AFF, and in general 0x5800 + (line >> 3) * 32 + col.
ScreenAddresses ==
    pc = "calcdone" =>
        /\ arg = <<0, 0>> => ret = <<16384, 22528>>
        /\ arg = <<1, 0>> => ret[1] = 16640
        /\ arg = <<8, 0>> => ret[1] = 16416
        /\ arg = <<64, 0>> => ret[1] = 18432
        /\ arg = <<191, 31>> => ret = <<22527, 23295>>
        /\ ret[2] = 22528 + (arg[1] \div 8) * 32 + arg[2]

ScreenAddressesWitness ==
    /\ pc = "calcdone"
    /\ arg = <<191, 31>>
    /\ ret = <<22527, 23295>>

\* Row r is selected by the high address byte high: its bit r is 0.
RowSelected(high, r) == (high \div (2 ^ r)) % 2 = 0

\* The byte a port read shows for the keys that are down: bit b is 0 exactly
\* when a key of column b is down in a selected row.
KeysShown(high) ==
    LET Shown(m) == \E r \in 0..7 : RowSelected(high, r) /\ <<r, m>> \in down
        Bit(m) == IF Shown(m) THEN 0 ELSE m
    IN 224 + Bit(1) + Bit(2) + Bit(4) + Bit(8) + Bit(16)

\* C9: Keyboard.read returns the AND of the selected rows: the bit of every
\* key that is down in a selected row is clear, every other bit is set (with
\* k1 and k2 down and their rows selected, exactly their two bits are
\* clear), and 0xFF when no row is selected.
KeyboardMultiRow ==
    (pc = "chunk" /\ pins.iorq /\ pins.rd) =>
        LET high == (pins.addr \div 256) % 256
        IN /\ KeyboardRead(rows, pins.addr) = KeysShown(high)
           /\ high = 255 => KeyboardRead(rows, pins.addr) = 255

KeyboardMultiRowWitness ==
    /\ pc = "chunk" /\ pins.iorq /\ pins.rd
    /\ down = {<<0, 2>>, <<7, 16>>}
    /\ pins.addr = 126 * 256 + 254
    /\ KeyboardRead(rows, pins.addr) = 255 - 2 - 16

\* C10: an IO read of a port with bit 0 clear returns
\* (keyboard.read(addr) & 0x1F) | 0xE0: bits 7..5 set, bits 4..0 from the
\* selected rows; with only the key (row 0, mask 0x02) down, port 0xFEFE
\* reads 0xFD.
UlaPortRead ==
    (pc = "chunk" /\ pins.iorq /\ pins.rd /\ pins.addr % 2 = 0) =>
        /\ pins.data = KeysShown((pins.addr \div 256) % 256)
        /\ pins.data >= 224
        /\ (down = {<<0, 2>>} /\ pins.addr = 65278) => pins.data = 253

UlaPortReadWitness ==
    /\ pc = "chunk" /\ pins.iorq /\ pins.rd
    /\ down = {<<0, 2>>}
    /\ pins.addr = 65278
    /\ pins.data = 253

\* C11: an IO write of v to port p sets border_color to v & 7 when bit 0 of
\* p is clear and leaves it when bit 0 of p is set; border_color is always
\* in 0..7, whatever IO writes, set_border_color calls and snapshot loads
\* have happened.
BorderWriteStep ==
    (current_t_state' = current_t_state + 1
     /\ pins'.iorq /\ pins'.wr /\ ~pins'.m1 /\ ~pins'.mreq) =>
        border_color' = IF pins'.addr % 2 = 0 THEN pins'.data % 8
                        ELSE border_color

BorderRange == border_color \in 0..7

BorderWrites == []BorderRange /\ [][BorderWriteStep]_vars

BorderWritesWitness ==
    /\ current_t_state = 2
    /\ z80 = ResetRegisters
    /\ pins.iorq /\ pins.wr /\ pins.addr = 32531 /\ pins.data = 0
    /\ border_color = 5

\* Every bit set in mask is 0 in addr.
MaskClear(addr, mask) ==
    \A b \in 0..15 : (mask \div 2^b) % 2 = 1 => (addr \div 2^b) % 2 = 0

\* The positions of the devices of devs that match addr.
Matching(devs, addr) ==
    {i \in 1..Len(devs) : MaskClear(addr, devs[i].mask)}

\* C12: IODeviceBus.read returns what the first device, in registration
\* order, whose mask matches the address returns, calls no other device,
\* and returns 0xFF when no device matches; with the ULA alone, registered
\* under mask 1, a port with bit 0 set reads 0xFF.
BusReadFirstMatch ==
    pc = "busread" =>
        LET M == Matching(arg, ret.addr)
        IN /\ M = {} => (ret.value = 255 /\ ret.calls = <<>>)
           /\ M # {} =>
                LET i == CHOOSE i \in M : \A j \in M : i <= j
                IN /\ ret.calls = <<i>>
                   /\ ret.value = DeviceRead(arg[i], rows, ret.addr)
           /\ (arg = Devices /\ ret.addr % 2 = 1) => ret.value = 255

\* The Keyboard of its own is registered after an IODevice that matches too,
\* and before the ULA, which also matches: the IODevice answers.
BusReadFirstMatchWitness ==
    /\ pc = "busread"
    /\ Len(arg) = 3
    /\ arg[1].device = "IODevice" /\ arg[1].mask = 2
    /\ arg[2].device = "Keyboard" /\ arg[2].mask = 1
    /\ arg[3].device = "ULA" /\ arg[3].mask = 1
    /\ down # {}
    /\ ret.addr = 252
    /\ ret.value = 255
    /\ ret.calls = <<1>>

\* C13: IODeviceBus.write calls write on the first device, in registration
\* order, whose mask matches the address and on no other device, later
\* devices that match included; when no device matches, no device is called
\* and no device state changes.
BusWriteFirstMatch ==
    pc = "buswrite" =>
        LET M == Matching(arg, ret.addr)
        IN /\ M = {} => (ret.calls = <<>> /\ border_color = ret.before)
           /\ M # {} =>
                LET i == CHOOSE i \in M : \A j \in M : i <= j
                IN /\ ret.calls = <<i>>
                   /\ border_color = IF arg[i].device = "ULA"
                                     THEN ret.data % 8
                                     ELSE ret.before

\* An IODevice that matches is registered before the ULA, which matches
\* too: the border colour stays.
BusWriteFirstMatchWitness ==
    /\ pc = "buswrite"
    /\ Len(arg) = 2
    /\ arg[1].device = "IODevice" /\ arg[1].mask = 2
    /\ arg[2].device = "ULA" /\ arg[2].mask = 1
    /\ ret.addr = 252 /\ ret.data = 13
    /\ ret.calls = <<1>>
    /\ border_color = 0

\* C14: CPU.transact does at most one bus action, chosen by priority: MREQ
\* and RD, a memory read onto the data bus; else MREQ and WR, a memory
\* write; else IORQ and M1, 0xFF onto the data bus and no IO device
\* accessed; else IORQ and RD, an IO read onto the data bus; else IORQ and
\* WR, an IO write; otherwise memory, border and data bus are as they were
\* (the data bus holds the 0xAA the core put out).
TransactStep ==
    current_t_state' = current_t_state + 1 =>
        LET p == pins'
            mem_same == \A a \in {0, DISPLAY_BASE, ATTR_BASE, 65278, 65279} :
                            MemRead(ram', a) = MemRead(ram, a)
            io_same == border_color' = border_color
            bus_same == p.data = 170
        IN IF p.mreq /\ p.rd
           THEN p.data = MemRead(ram, p.addr) /\ mem_same /\ io_same
           ELSE IF p.mreq /\ p.wr
           THEN /\ MemRead(ram', p.addr) = 170
                /\ \A a \in {0, DISPLAY_BASE, ATTR_BASE, 65278, 65279} \ {p.addr} :
                      MemRead(ram', a) = MemRead(ram, a)
                /\ io_same /\ bus_same
           ELSE IF p.mreq
           THEN mem_same /\ io_same /\ bus_same
           ELSE IF p.iorq /\ p.m1
           THEN p.data = 255 /\ mem_same /\ io_same
           ELSE IF p.iorq /\ p.rd
           THEN /\ p.data = (IF p.addr % 2 = 1 THEN 255
                             ELSE IF <<0, 2>> \in down THEN 253 ELSE 255)
                /\ mem_same /\ io_same
           ELSE IF p.iorq /\ p.wr
           THEN /\ border_color' = (IF p.addr % 2 = 0 THEN 2 ELSE border_color)
                /\ mem_same /\ bus_same
           ELSE mem_same /\ io_same /\ bus_same

SampleStep ==
    current_t_state' = current_t_state + 1
    /\ line >= TOP_BLANKING /\ line < FIELD_LINES - BOTTOM_BLANKING
    /\ line_cycle < COLUMNS * 4 /\ line_cycle % 4 = 0
    => /\ group'.line = line
       /\ group'.column = line_cycle \div 4
       /\ IF group'.reads # <<>>
          THEN /\ group'.display_byte = MemRead(ram, group'.reads[1])
               /\ group'.attr_byte = MemRead(ram, group'.reads[2])
               /\ landed.kind = "mem" /\ ~landed.seen
                  /\ landed.addr = group'.reads[1]
                  => group'.display_byte = landed.value
               /\ landed.kind = "mem" /\ ~landed.seen
                  /\ landed.addr = group'.reads[2]
                  => group'.attr_byte = landed.value
          ELSE /\ group'.attr_byte = Shl(border_color, 3)
               /\ landed.kind = "border" /\ ~landed.seen
                  => group'.attr_byte = Shl(BitAnd(landed.value, 7), 3)
       /\ LET w == TransactWrite(pins')
          IN /\ w.kind = "mem" => MemRead(ram', w.addr) = w.value
             /\ w.kind = "border" => border_color' = BitAnd(w.value, 7)

SampleOrder == [][SampleStep]_vars

\* A write of the attribute byte landed in the T-state in which line 104
\* sampled it, and the sample of the same byte on line 105 has read it.
SampleOrderWitness ==
    /\ landed.kind = "mem"
    /\ landed.seen
    /\ group.line = 105
    /\ group.reads # <<>>
    /\ landed.addr = calculate_attr_address(40, 2)
    /\ IF group.reads # <<>>
       THEN group.reads[2] = landed.addr /\ group.attr_byte = 71
       ELSE FALSE

\* C16: SNA round trip.  After a snapshot built from register values is
\* loaded successfully, the register getters return the values the file was
\* built from: I, HL', DE', BC', AF', HL, DE, BC, IY, IX, R, AF, SP and IM.
SnaRoundTrip ==
    pc = "loaded"
    => /\ z80.i = arg.i
       /\ z80.hl_prime = arg.hl_prime
       /\ z80.de_prime = arg.de_prime
       /\ z80.bc_prime = arg.bc_prime
       /\ z80.af_prime = arg.af_prime
       /\ z80.hl = arg.hl
       /\ z80.de = arg.de
       /\ z80.bc = arg.bc
       /\ z80.iy = arg.iy
       /\ z80.ix = arg.ix
       /\ z80.r = arg.r
       /\ z80.af = arg.af
       /\ z80.sp = arg.sp
       /\ z80.im = arg.im

\* A snapshot of registers that all differ has been loaded.
SnaRoundTripWitness ==
    /\ pc = "loaded"
    /\ arg.seed = 2
    /\ z80.hl = 2 * 4099 + 5 * 257
    /\ z80.de # z80.hl
    /\ z80.hl \div 256 # z80.hl % 256

\* C17: after a successful load_sna the CPU has been positioned by prefetch
\* at 0x0072, IFF1 and IFF2 both equal bit 2 of the byte at offset 19,
\* border_color is the byte at offset 26 & 7, and RAM 0x4000..0xFFFF holds
\* the 49152 payload bytes in order.
SnaLoaded ==
    pc = "loaded"
    => \E f \in {SnaBuild(arg)} :
          /\ z80.pc = 114
          /\ pins = NoPins
          /\ z80.iff1 = ((arg.interrupt \div 4) % 2 = 1)
          /\ z80.iff2 = ((arg.interrupt \div 4) % 2 = 1)
          /\ border_color = arg.border % 8
          /\ \A k \in 0..(SNA_RAM_SIZE - 1) :
                MemRead(ram, 16384 + k) = FileByte(f, 27 + k)

\* A snapshot with interrupts enabled, a border byte above 7 and a payload
\* that differs from the initial memory has been loaded.
SnaLoadedWitness ==
    /\ pc = "loaded"
    /\ z80.iff1
    /\ z80.iff2
    /\ arg.border > 7
    /\ border_color = arg.border % 8
    /\ MemRead(ram, 65535) # InitialByte(65535)
    /\ MemRead(ram, 16384) # InitialByte(16384)

\* C18: load_sna fails (RuntimeError, "Invalid SNA file") whenever the file
\* holds fewer than 49152 bytes after the 27-byte header, files shorter
\* than the header included, and succeeds whenever 27 + 49152 bytes or more
\* are present.
SnaLength ==
    /\ pc = "aborted" => arg.size < 27 + 49152
    /\ pc = "loaded" => arg.size >= 27 + 49152
    /\ pc \in {"init", "aborted", "loaded"}

\* The load of a file shorter than the header has failed.
SnaLengthWitness ==
    /\ pc = "aborted"
    /\ arg.size < 27

\* C19: load_from_file(path, addr, size).  When the file is shorter than
\* size the call fails (RuntimeError, "File too small") and every memory
\* byte is unchanged; when the file has at least size bytes, exactly its
\* first size bytes are copied to [addr, addr + size) and every memory byte
\* outside that range is unchanged.  The bytes compared are every 257th
\* address, the ends of the memory, of the screen and of the range, and the
\* bytes next to them.
LoadFromFileStep ==
    Len(ram'.layers) > Len(ram.layers) \/ (pc = "init" /\ pc' = "aborted")
    => \E c \in {ret'} :
         LET probe == {257 * j : j \in 0..255}
                      \cup {a \in {0, 1, 16383, 16384, 23295, 23296, 65534,
                                   65535, c.addr - 1, c.addr, c.addr + 1,
                                   c.addr + c.size - 2, c.addr + c.size - 1,
                                   c.addr + c.size} : a >= 0 /\ a < 65536}
         IN IF c.file.size < c.size
            THEN /\ pc' = "aborted"
                 /\ \A a \in probe : MemRead(ram', a) = MemRead(ram, a)
            ELSE /\ pc' = pc
                 /\ \A a \in probe :
                       MemRead(ram', a) =
                          IF a >= c.addr /\ a < c.addr + c.size
                          THEN FileByte(c.file, a - c.addr)
                          ELSE MemRead(ram, a)

LoadFromFileContract == [][LoadFromFileStep]_vars

\* A screen load has succeeded over a written byte and left the written
\* bytes around the screen as they were, and a later load of a file one
\* byte too short has failed.
LoadFromFileContractWitness ==
    /\ pc = "aborted"
    /\ Len(ram.layers) = 1
    /\ ram.layers[1].addr = 16384
    /\ ram.layers[1].size = 6912
    /\ ret.size = ret.file.size + 1
    /\ MemRead(ram, 16383) = 0
    /\ MemRead(ram, 23296) = 1
    /\ MemRead(ram, 23295) = FileByte(ram.layers[1].file, 6911)
    /\ MemRead(ram, 23295) # 1

\* C20: whatever the order of the file arguments, main loads the ROM first
\* (the last .rom given, or 48.rom), then the snapshot (the last .sna
\* given), then every .scr file in argument order, and starts the loop only
\* after all of them; so when a .sna and a .scr are given, RAM
\* 0x4000..0x5AFF holds the data of the last .scr in the end and
\* 0x5B00..0xFFFF the data of the snapshot.  The loads made are the layers
\* of the memory, oldest first; the bytes compared are every 97th address
\* and the ends of the two ranges.
MainOrder ==
    LET roms == {i \in DOMAIN arg : arg[i].ext = "rom"}
        snas == {i \in DOMAIN arg : arg[i].ext = "sna"}
        scrs == {i \in DOMAIN arg : arg[i].ext = "scr"}
        Last(S) == CHOOSE i \in S : \A j \in S : j <= i
        hs == IF snas = {} THEN 0 ELSE 1
        loads == ram.layers
        probe == {97 * j : j \in 0..675}
                 \cup {16384, 23295, 23296, 23297, 65535}
    IN /\ pc = "main" => loads = <<>>
       /\ Len(loads) <= 1 + hs + Cardinality(scrs)
       /\ Len(loads) >= 1
          => loads[1] = [addr |-> 0, size |-> 16384, offset |-> 0,
                         file |-> IF roms = {} THEN Rom48
                                  ELSE arg[Last(roms)].file]
       /\ hs = 1 /\ Len(loads) >= 2
          => loads[2] = [addr |-> 16384, size |-> 49152, offset |-> 27,
                         file |-> arg[Last(snas)].file]
       /\ \A i \in scrs :
             LET j == Cardinality({x \in scrs : x <= i})
             IN Len(loads) >= 1 + hs + j
                => loads[1 + hs + j] = [addr |-> 16384, size |-> 6912,
                                        offset |-> 0, file |-> arg[i].file]
       /\ pc \in {"events", "chunk", "returned"}
          => /\ Len(loads) = 1 + hs + Cardinality(scrs)
             /\ hs = 1 /\ scrs # {}
                => \A a \in probe :
                      /\ a >= 16384 /\ a < 23296
                         => MemRead(ram, a) =
                               FileByte(arg[Last(scrs)].file, a - 16384)
                      /\ a >= 23296
                         => MemRead(ram, a) =
                               FileByte(arg[Last(snas)].file, 27 + a - 16384)

\* The loop has been started for arguments that name a screen file before
\* the snapshot and the ROM after both.
MainOrderWitness ==
    /\ pc = "events"
    /\ Len(arg) = 3
    /\ IF Len(arg) = 3
       THEN arg[1].ext = "scr" /\ arg[2].ext = "sna" /\ arg[3].ext = "rom"
       ELSE FALSE
    /\ Len(ram.layers) = 3
    /\ MemRead(ram, 0) = FileByte(ram.layers[1].file, 0)
    /\ MemRead(ram, 16384) = (21 + 0) % 256
    /\ MemRead(ram, 23296) # InitialByte(23296)

\* C21: an unrecognized command-line argument (not -h, --help, -d, --debug,
\* and not a name ending in .rom, .sna or .scr) aborts the startup: the
\* emulation loop is never entered.
BadArgumentAborts ==
    (\E i \in DOMAIN arg : arg[i].ext \notin {"rom", "sna", "scr"})
    => pc \notin {"events", "chunk", "returned"}

\* C24: no memory access made during a T-state fails: for every address on
\* the bus, every value of the registers (I and IM included) and every beam
\* position, each memory read or write made inside ULA.tick addresses a
\* byte in 0x0000..0xFFFF and raises no error.
AccessesInRange == pc # "error"

\* C22: System.run returns only at a chunk boundary, so the number of
\* T-states executed is a multiple of CHUNK_SIZE; key and quit events are
\* applied only between chunks, never in the middle of one; and once a
\* quit (SDL_QUIT or ESC key-down) has been polled the loop eventually
\* terminates.
RunReturnStep ==
    /\ (quit' # quit \/ rows' # rows \/ down' # down)
          => /\ pc = "events" /\ pc' = "events"
             /\ current_t_state % CHUNK_SIZE = 0
             /\ current_t_state' = current_t_state
    /\ (pc' = "returned" /\ pc # "returned")
          => /\ quit
             /\ current_t_state' % CHUNK_SIZE = 0
             /\ current_t_state' > 0
RunReturns ==
    /\ [](pc = "returned" => current_t_state % CHUNK_SIZE = 0)
    /\ [][RunReturnStep]_vars
    /\ (quit ~> pc = "returned")
\* The key Z was pressed and a quit polled after the first chunk, and the
\* loop returned after the second.
RunReturnsWitness ==
    /\ pc = "returned"
    /\ quit
    /\ key_map[SDL_SCANCODE.Z] \in down
    /\ current_t_state = 2 * CHUNK_SIZE

FramebufferBounds ==
    group.line >= 0
    => /\ group.offset_y \in 0..583
       /\ group.bleed_y \in 0..583
       /\ \A b \in 0..7 : group.offset_x + (7 - b) \in 0..351
       /\ group.bleed_y # group.offset_y
       /\ group.bleed_y \div 2 = group.offset_y \div 2
\* The last group of the odd field: row 583, bleed row 582, pixels 344..351.
FramebufferBoundsWitness ==
    /\ group.line = 307
    /\ group.column = 43
    /\ group.offset_y = 583
    /\ group.bleed_y = 582
    /\ group.offset_x = 344

\* C26: ULA.tick emits an 8-pixel group exactly on the ticks whose pre-tick
\* position has 16 <= line < 308, line_cycle < 176 and line_cycle a
\* multiple of 4, for the column line_cycle / 4: exactly 44 groups on every
\* visible line, none on the lines 0..15 and 308..311, and no other tick
\* changes the framebuffer.
EmitStep ==
    IF current_t_state' = current_t_state + 1
       /\ line >= 16 /\ line < 308 /\ line_cycle < 176 /\ line_cycle % 4 = 0
    THEN /\ group'.n = group.n + 1
         /\ group'.line = line
         /\ group'.column = line_cycle \div 4
    ELSE group' = group
EmitCount ==
    LET ceil == (line_cycle + 3) \div 4
        here == IF line < 16 THEN 0
                ELSE IF line >= 308 THEN 292 * 44
                ELSE (line - 16) * 44 + (IF ceil < 44 THEN ceil ELSE 44)
    IN group.n = fields * 292 * 44 + here
EmitGroups == []EmitCount /\ [][EmitStep]_vars
\* In the bottom blanking of the first field all 292 * 44 groups are drawn,
\* the last for the cell (307, 43).
EmitGroupsWitness ==
    /\ fields = 0
    /\ line = 310
    /\ group.n = 12848
    /\ group.line = 307
    /\ group.column = 43

\* C27: a group takes its bytes from memory if and only if 64 <= line < 256
\* and 6 <= column < 38, reading the display and the attribute address of
\* the cell (line - 64, column - 6); every other group has the display
\* byte 0 and the attribute border_color << 3, FLASH and BRIGHT clear.
GroupBytesStep ==
    LET y == line - 64
        x == (line_cycle \div 4) - 6
        display == 16384 + ((y \div 64) * 2048) + ((y % 8) * 256)
                   + (((y \div 8) % 8) * 32) + x
        attr == 22528 + ((y \div 8) * 32) + x
    IN group'.n # group.n
       => IF line >= 64 /\ line < 256 /\ line_cycle \div 4 >= 6
             /\ line_cycle \div 4 < 38
          THEN /\ group'.reads = <<display, attr>>
               /\ group'.display_byte = MemRead(ram, display)
               /\ group'.attr_byte = MemRead(ram, attr)
          ELSE /\ group'.reads = <<>>
               /\ group'.display_byte = 0
               /\ group'.attr_byte = border_color * 8
               /\ group'.attr_byte < 64
PixelMain ==
    pc = "calcdone"
    => \A b \in 0..7 :
          LET attr == ret.g.attr_byte
              set == (ret.g.display_byte \div 2^b) % 2 = 1
              swap == attr >= 128 /\ arg.flash_inverted
              ink == attr % 8
              paper == (attr \div 8) % 8
              idx == IF set <=> swap THEN paper ELSE ink
              c == <<255 * ((idx \div 2) % 2), 255 * ((idx \div 4) % 2),
                     255 * (idx % 2), 255>>
              x == arg.column * 8 + (7 - b)
          IN /\ x - ret.g.offset_x \in 0..7
             /\ \A ch \in 1..4 :
                   ret.pixels.main[x - ret.g.offset_x][ch]
                       = BitOr(arg.main[ch] \div 4, c[ch])
\* A flashing cell in the inverted phase: the set pixels are drawn in the
\* PAPER colour (red) over the faded old pixel, the clear ones in INK.
PixelMainWitness ==
    /\ pc = "calcdone"
    /\ arg.line = 64
    /\ arg.flash_inverted
    /\ arg.attr_byte = 128 + 16 + 1
    /\ arg.display_byte = 90
    /\ ret.pixels.main[1] = <<255, 32, 16, 255>>
    /\ ret.pixels.main[0] = <<63, 32, 255, 255>>

RefreshStep ==
    /\ (pc = "chunk" /\ pc' # "chunk")
          => (refreshes' = refreshes + 1
              <=> (current_t_state \div CHUNK_SIZE) % 3 = 0)
    /\ refreshes' # refreshes
          => /\ pc = "chunk" /\ pc' # "chunk"
             /\ refreshes' = refreshes + 1
             /\ current_t_state % 69888 = 0
             /\ current_t_state' = current_t_state
             /\ line = 0 /\ line_cycle = 0
             /\ line' = 0 /\ line_cycle' = 0
RefreshEveryThirdChunk ==
    /\ [](pc = "events" => refreshes = (current_t_state \div CHUNK_SIZE) \div 3)
    /\ [][RefreshStep]_vars
\* After six chunks the display has been refreshed twice, the second time
\* just now.
RefreshEveryThirdChunkWitness ==
    /\ pc = "events"
    /\ current_t_state = 6 * CHUNK_SIZE
    /\ refreshes = 2
    /\ next_refresh_t_state = 3 * T_STATES_PER_FRAME
    /\ line = 0
    /\ line_cycle = 0

\* C31: odd_field and flash_inverted are changed only by the tick on which
\* line rolls over from 311 to 0, odd_field on every such tick; every other
\* tick, IO read or write, key press or release and snapshot load leaves
\* both unchanged, so all groups of one field are drawn with the same field
\* parity and flash phase.
FieldStateStep ==
    /\ (odd_field' # odd_field \/ flash_inverted' # flash_inverted)
          => /\ current_t_state' = current_t_state + 1
             /\ line = 311 /\ line_cycle = 223
             /\ line' = 0 /\ line_cycle' = 0
    /\ (line = 311 /\ line' = 0) => odd_field' # odd_field
    /\ group'.n # group.n
          => /\ odd_field' = odd_field
             /\ flash_inverted' = flash_inverted
             /\ group'.offset_y % 2 = IF odd_field THEN 1 ELSE 0
FieldState == [][FieldStateStep]_vars
\* Sixteen fields are done: the field parity is back to even and the flash
\* phase has been toggled once, after a border write in the last T-states.
FieldStateWitness ==
    /\ fields = 16
    /\ flash_toggles = 1
    /\ flash_inverted
    /\ ~odd_field
    /\ border_color = 5
    /\ line = 0
    /\ line_cycle = 0


-----------------------------------------------------------------------------
\* C32: within every field the pixel update reads each display byte address
\* in [0x4000, 0x5800) exactly once and each attribute address in
\* [0x5800, 0x5B00) exactly eight times; it reads no address outside
\* [0x4000, 0x5B00), and memory changes in no T-state in which the CPU does
\* not write it.
FieldReadsCount ==
    LET Count(a) ==
            ret.reads.full[(a - DISPLAY_BASE) \div 32]
            + IF a \in DOMAIN ret.reads.part THEN ret.reads.part[a] ELSE 0
        Due(a) == IF a < ATTR_BASE THEN 1 ELSE 8
    IN /\ \A a \in DISPLAY_BASE..(ATTR_BASE + 24 * 32 - 1) :
             Count(a) <= Due(a)
       /\ (fields > 0 /\ line = 0 /\ line_cycle = 0)
             => \A a \in DISPLAY_BASE..(ATTR_BASE + 24 * 32 - 1) :
                   Count(a) = Due(a)
       /\ DOMAIN ret.reads.part
             \subseteq DISPLAY_BASE..(ATTR_BASE + 24 * 32 - 1)
       /\ ~ret.stray

FieldReadsStep ==
    (line' # line /\ ~(pins'.mreq /\ pins'.wr)) => ram' = ram

FieldReads == []FieldReadsCount /\ [][FieldReadsStep]_vars

\* The first field has been scanned, the CPU writing the display file in
\* its last lines.
FieldReadsWitness ==
    /\ fields = 1 /\ line = 0 /\ line_cycle = 0 /\ pc = "chunk"
    /\ pins.mreq /\ pins.wr
    /\ MemRead(ram, DISPLAY_BASE + 33) = 60
    /\ ret.reads.full[0] = 1
    /\ ret.reads.full[191] = 1
    /\ ret.reads.full[192 + 24 - 1] = 8
    /\ ret.reads.part = <<>>

-----------------------------------------------------------------------------
\* C33: within every field each of the 584 x 352 framebuffer pixels is
\* written exactly once, as a main pixel or as a bleed pixel: in the rows
\* whose parity is the parity of the field (odd rows in an odd field) as a
\* main pixel, in the rows of the other parity as a bleed pixel.
FieldWritesCount ==
    LET Main(i) ==
            ret.main.full[i \div COLUMNS]
            + IF i \in DOMAIN ret.main.part THEN ret.main.part[i] ELSE 0
        Bleed(i) ==
            ret.bleed.full[i \div COLUMNS]
            + IF i \in DOMAIN ret.bleed.part THEN ret.bleed.part[i] ELSE 0
        ended == fields > 0 /\ line = 0 /\ line_cycle = 0
        parity == IF odd_field = ended THEN 0 ELSE 1
    IN /\ CRT_LINES = 584 /\ COLUMNS * 8 = 352
       /\ \A i \in 0..(CRT_LINES * COLUMNS - 1) :
             /\ Main(i) + Bleed(i) <= 1
             /\ ended => Main(i) + Bleed(i) = 1
             /\ Main(i) = 1 => (i \div COLUMNS) % 2 = parity
             /\ Bleed(i) = 1 => (i \div COLUMNS) % 2 # parity
       /\ ~ret.stray

FieldWrites == []FieldWritesCount

\* The second field, an odd one, has been scanned: the first pixels of the
\* framebuffer were written as bleed pixels, the last ones as main pixels.
FieldWritesWitness ==
    /\ fields = 2 /\ line = 0 /\ line_cycle = 0 /\ ~odd_field
    /\ ret.bleed.full[0] = 1 /\ ret.main.full[0] = 0
    /\ ret.main.full[CRT_LINES - 1] = 1 /\ ret.bleed.full[CRT_LINES - 1] = 0
    /\ ret.main.part = <<>> /\ ret.bleed.part = <<>>

-----------------------------------------------------------------------------
\* C34: for a BRIGHT attribute every RGB channel of the bleed colour is
\* 27/32 of the same channel of the source colour, rounded down, for every
\* palette colour (0xFF bleeds as 0xD7), and the product by 27 does not
\* carry from one channel into the next: a bleed pixel becomes the faded
\* old pixel or'ed, channel by channel, with that bleed colour.
BrightBleedRatio ==
    (pc = "calcdone" /\ (ret.g.attr_byte \div 64) % 2 = 1)
    => \A b \in 0..7 :
          LET attr == ret.g.attr_byte
              set == (ret.g.display_byte \div 2^b) % 2 = 1
              swap == attr >= 128 /\ arg.flash_inverted
              idx == IF set <=> swap THEN (attr \div 8) % 8 ELSE attr % 8
              color == rgba_color_table[idx + 1]
          IN \A ch \in 1..3 :
                ret.pixels.bleed[7 - b][ch]
                    = BitOr(arg.bleed[ch] \div 4, (color[ch] * 27) \div 32)

-----------------------------------------------------------------------------
\* C35: called with the arguments its caller passes and a line below
\* TOP_BLANKING (16) or from TOP_BLANKING + VISIBLE_LINES (308) on, the
\* pixel update returns with no pixel of the framebuffer written, whatever
\* ULA.tick tested before the call.
BlankingDrawsNothing ==
    (pc # "calc" /\ (arg.line < 16 \/ arg.line >= 308))
    => /\ pc = "calcdone"
       /\ ret.pixels.main = [k \in 0..7 |-> arg.main]
       /\ ret.pixels.bleed = [k \in 0..7 |-> arg.bleed]

-----------------------------------------------------------------------------
\* C36: a load_sna that fails is not atomic.  It leaves RAM 0x4000..0xFFFF
\* as it was, but the CPU is already positioned at 0x0072 and every
\* register, IFF1 and IFF2, IM and border_color already hold the values of
\* the header bytes, a byte the file does not have counting as 0.
SnaFailureStep ==
    pc' = "aborted"
    => LET Byte(j) == IF j < arg.size THEN SnaBuild(arg).head[j + 1] ELSE 0
           Word(j) == Byte(j) + 256 * Byte(j + 1)
           iff == (Byte(19) \div 4) % 2 = 1
       IN /\ pc = "init"
          /\ arg.size < 27 + 49152
          /\ \A a \in 16384..65535 : MemRead(ram', a) = MemRead(ram, a)
          /\ z80' = [pc |-> 114, i |-> Byte(0),
                     hl_prime |-> Word(1), de_prime |-> Word(3),
                     bc_prime |-> Word(5), af_prime |-> Word(7),
                     hl |-> Word(9), de |-> Word(11), bc |-> Word(13),
                     iy |-> Word(15), ix |-> Word(17),
                     iff1 |-> iff, iff2 |-> iff, r |-> Byte(20),
                     af |-> Word(21), sp |-> Word(23), im |-> Byte(25)]
          /\ z80' # z80
          /\ pins' = NoPins
          /\ border_color' = Byte(26) % 8

SnaFailure == [][SnaFailureStep]_vars

\* A snapshot cut after its twentieth byte has failed to load: HL' .. IX
\* and the interrupt flags come from the file, R, AF, SP and IM are 0.
SnaFailureWitness ==
    /\ pc = "aborted"
    /\ arg.size = 20 /\ arg.seed = 1
    /\ z80.pc = 114
    /\ z80.i = 255 /\ z80.ix = 65535 /\ z80.iff1 /\ z80.iff2
    /\ z80.r = 0 /\ z80.af = 0 /\ z80.sp = 0 /\ z80.im = 0
    /\ border_color = 0
    /\ MemRead(ram, 16384) = InitialByte(16384)

-----------------------------------------------------------------------------
\* C37: load_sna, successful or not, leaves unchanged the ROM region
\* 0x0000..0x3FFF, the beam position (line, line_cycle), flash_flipper,
\* flash_inverted, odd_field, the keyboard matrix and the framebuffer (no
\* group of pixels is drawn).
SnaUntouchedStep ==
    (pc = "init" /\ pc' # "init" /\ MainFiles(arg).sna_file # <<>>)
    => /\ pc' \in {"loaded", "aborted"}
       /\ z80'.pc = 114
       /\ \A a \in 0..16383 : MemRead(ram', a) = MemRead(ram, a)
       /\ line' = line /\ line_cycle' = line_cycle
       /\ flash_flipper' = flash_flipper
       /\ flash_inverted' = flash_inverted
       /\ odd_field' = odd_field
       /\ rows' = rows
       /\ group' = group

SnaUntouched == [][SnaUntouchedStep]_vars

\* After the ROM, a snapshot is loaded: the last byte of the ROM is in
\* place below the first byte of the payload.
SnaUntouchedWitness ==
    /\ pc = "loaded"
    /\ Len(arg) = 2
    /\ Len(ram.layers) = 2
    /\ z80.pc = 114 /\ z80.i = 255
    /\ MemRead(ram, 16383) = (11 + 16383 * 7) % 256
    /\ MemRead(ram, 16384) = (2 + 27 * 7) % 256
    /\ MemRead(ram, 16383) # MemRead(ram, 16384)
    /\ line = 0 /\ line_cycle = 0 /\ flash_flipper = 16
    /\ rows = [r \in 0..7 |-> 255]

-----------------------------------------------------------------------------
\* C38: after a quit has been polled at the start of an iteration of the
\* loop, System.run does not return at once: it still runs exactly one
\* full chunk of 23296 ULA ticks, and the refresh check after it, before
\* the condition of the loop is tested again and run returns.
QuitChunkStep ==
    /\ (quit' /\ ~quit)
          => /\ pc = "events" /\ pc' = "events"
             /\ current_t_state' = current_t_state
    /\ (quit /\ pc = "events" /\ pc' # "events")
          => /\ pc' = "chunk"
             /\ current_t_state' = current_t_state
             /\ target_t_state' = current_t_state + 23296
    /\ (quit /\ pc = "chunk" /\ pc' = "chunk")
          => /\ current_t_state' > current_t_state
             /\ current_t_state' <= target_t_state
             /\ target_t_state' = target_t_state
             /\ line' * T_STATES_PER_LINE + line_cycle'
                   = (line * T_STATES_PER_LINE + line_cycle
                      + (current_t_state' - current_t_state))
                     % T_STATES_PER_FRAME
    /\ (quit /\ pc = "chunk" /\ pc' # "chunk")
          => /\ pc' = "returned"
             /\ current_t_state = target_t_state
             /\ current_t_state' = current_t_state
             /\ refreshes' = IF current_t_state >= next_refresh_t_state
                             THEN refreshes + 1 ELSE refreshes
    /\ pc = "returned" => pc' = "returned"

QuitChunkState ==
    /\ pc = "returned" => quit
    /\ (quit /\ pc = "events") => current_t_state % CHUNK_SIZE = 0
    /\ (quit /\ pc = "chunk")
          => /\ target_t_state % CHUNK_SIZE = 0
             /\ target_t_state - CHUNK_SIZE <= current_t_state
             /\ current_t_state <= target_t_state

QuitChunk == []QuitChunkState /\ [][QuitChunkStep]_vars

\* A quit was polled after the second chunk: the third chunk has run, the
\* field is complete, the display has been refreshed and run has returned.
QuitChunkWitness ==
    /\ pc = "returned"
    /\ quit
    /\ current_t_state = 3 * CHUNK_SIZE
    /\ fields = 1 /\ line = 0 /\ line_cycle = 0
    /\ refreshes = 1

-----------------------------------------------------------------------------
\* C39: driven by the same sequence of CPU pin values, the same initial
\* memory and the same key events, the optimized emulator and the earlier
\* one have the same framebuffer, memory, border_color, beam position,
\* flash and field state after every tick: the earlier one raises no
\* error, its state is the state of the optimized one, and both store the
\* same pixels for the group they have drawn.
PairIdentical ==
    pc \in {"events", "chunk", "returned"}
    => /\ ~ret.error
       /\ ret.u = UlaState
       /\ \A old \in {<<255, 128, 66, 7>>} :
             update_pixels_jit_pixels([k \in 0..7 |-> old],
                                      [k \in 0..7 |-> old],
                                      ret.u.group, ret.u.flash_inverted)
             = screen_update_full_jit_pixels([k \in 0..7 |-> old],
                                             [k \in 0..7 |-> old],
                                             group, flash_inverted)

-----------------------------------------------------------------------------
\* The bit of the matrix key k = <<row, bit_mask>> in the rows rws: 0 when
\* the key reads as pressed.
KeyBit(rws, k) == BitAnd(rws[k[1]], k[2])

\* The index in the event sequence evs of the last event of a scancode
\* that maps to the matrix key k, 0 when there is none.
LastEventOn(evs, k) ==
    LET I == {i \in 1..Len(evs) :
                 /\ evs[i].scancode \in DOMAIN key_map
                 /\ key_map[evs[i].scancode] = k}
    IN IF I = {} THEN 0 ELSE CHOOSE i \in I : \A j \in I : j <= i

\* The host scancode sc is held: its last event in evs is a press.
HostHeld(evs, sc) ==
    \E i \in 1..Len(evs) :
       /\ evs[i].scancode = sc /\ evs[i].type = "SDL_KEYDOWN"
       /\ \A j \in (i + 1)..Len(evs) : evs[j].scancode # sc

\* The rows hold one bit per matrix key and nothing per scancode: a key
\* reads as pressed exactly when the last event of any scancode mapped to
\* it was a press, the three upper bits of every row stay set, and a read
\* of row 0 after a release of either shift shows CAPS SHIFT released,
\* whether or not the other shift is still held.
KeyMatrixState ==
    /\ \A k \in {key_map[sc] : sc \in DOMAIN key_map} :
          KeyBit(rows, k) = 0
          <=> /\ LastEventOn(ret, k) > 0
              /\ ret[LastEventOn(ret, k)].type = "SDL_KEYDOWN"
    /\ \A r \in 0..7 : BitAnd(rows[r], 224) = 224
    /\ \A sc \in {SDL_SCANCODE.LSHIFT, SDL_SCANCODE.RSHIFT} :
          /\ Len(ret) > 0
          /\ ret[Len(ret)] = [type |-> "SDL_KEYUP", scancode |-> sc]
          => /\ KeyBit(rows, <<0, 1>>) = 1
             /\ pc = "chunk" /\ current_t_state = 1 /\ pins.addr = 65278
                => BitAnd(pins.data, 1) = 1

\* One key event: a press clears the bit of its key and changes nothing
\* when the key already reads as pressed, a release sets the bit of its
\* key, no other bit changes, and a scancode without a mapping changes
\* nothing.
KeyMatrixStep ==
    Len(ret') = Len(ret) + 1
    => LET e == ret'[Len(ret')]
       IN IF e.scancode \notin DOMAIN key_map
          THEN rows' = rows
          ELSE LET k == key_map[e.scancode]
               IN /\ e.type = "SDL_KEYDOWN"
                     => /\ KeyBit(rows', k) = 0
                        /\ KeyBit(rows, k) = 0 => rows' = rows
                  /\ e.type = "SDL_KEYUP" => KeyBit(rows', k) = k[2]
                  /\ \A r \in 0..7 : r # k[1] => rows'[r] = rows[r]
                  /\ BitAndNot(rows'[k[1]], k[2])
                     = BitAndNot(rows[k[1]], k[2])

\* C40: the keyboard matrix keeps one bit per matrix key and no state per
\* scancode: press is idempotent, release always marks the key released,
\* a scancode without a mapping changes nothing, and when both shifts
\* (both row 0, mask 0x01) are held, releasing either one makes the key
\* read as released while the other is still held.
KeyMatrix == []KeyMatrixState /\ [][KeyMatrixStep]_vars

\* Both shifts were pressed, one of them has been released last and the
\* other is still held; the core has read row 0 and CAPS SHIFT reads as
\* released.
KeyMatrixWitness ==
    /\ pc = "chunk" /\ current_t_state = 1 /\ pins.addr = 65278
    /\ Len(ret) >= 3
    /\ \E p \in {<<SDL_SCANCODE.LSHIFT, SDL_SCANCODE.RSHIFT>>,
                 <<SDL_SCANCODE.RSHIFT, SDL_SCANCODE.LSHIFT>>} :
          /\ ret[Len(ret)] = [type |-> "SDL_KEYUP", scancode |-> p[1]]
          /\ HostHeld(ret, p[2])
          /\ \E i \in 1..Len(ret) :
                ret[i] = [type |-> "SDL_KEYDOWN", scancode |-> p[1]]
    /\ KeyBit(rows, <<0, 1>>) = 1
    /\ BitAnd(pins.data, 1) = 1
====
